--------------------------- MODULE DesktopProofs ---------------------------
(***************************************************************************)
(* Each server reports the outcome of the start it followed, and the       *)
(* drawer of devc-desktop agrees with the queue of devc web, for any       *)
(* servers, runs, requests and deaths.                                     *)
(***************************************************************************)
EXTENDS Desktop, TLAPS

-----------------------------------------------------------------------------
(* The starts of Starts.                                                   *)

StartsTypeOK ==
  /\ pc \in [Server -> PC] /\ follows \in [Server -> 0..MaxRuns] /\ runs \in 0..MaxRuns
  /\ dir \in [run : 0..MaxRuns, beat : Beat, result : 0..MaxRuns]
  /\ shells \subseteq Run /\ active \subseteq Run

(* Between a server's look at the folder and the run it types.             *)
Busy(s) == pc[s] \in {"devcd", "made"}

(* The folder tells of the only run that is typed or at work.              *)
FolderTells ==
  /\ dir.run = runs /\ dir.result \in {0, dir.run} /\ (dir.run = 0 => dir.beat = "none")
  /\ shells \cup active \subseteq {dir.run} /\ shells \cap active = {}
  /\ shells # {} => dir.beat = "none" /\ dir.result = 0
  /\ active # {} => dir.beat = "fresh" /\ dir.result = 0

(* Who begins a start in a pane is alone with the folder, and nothing runs *)
(* but what servers do themselves.                                         *)
BusyAlone ==
  \A s \in Server : Busy(s) =>
    /\ shells = {} /\ active = {} /\ ~Running
    /\ \A t \in Server : t # s => pc[t] \in {"idle", "own"}
    /\ pc[s] = "made" =>
         follows[s] = dir.run /\ dir.run # 0 /\ dir.beat = "none" /\ dir.result = 0

(* Who follows a start follows the folder's.                               *)
FollowsFolder == \A s \in Server : pc[s] = "follow" => follows[s] = dir.run /\ dir.run # 0

StartInv == StartsTypeOK /\ FolderTells /\ BusyAlone /\ FollowsFolder

LEMMA StartInvInit == Init => StartInv
BY StartsAssumption
DEF Init, StartInv, StartsTypeOK, PC, Beat, FolderTells, BusyAlone, Busy, FollowsFolder

(* What a server does about a start.                                       *)
LEMMA ServersKeepStartInv ==
  ASSUME ~Races, StartInv, NEW s \in Server, Asks(s) \/ Step(s)
  PROVE  StartInv'
<1> USE StartsAssumption
<1> USE DEF StartInv, StartsTypeOK, PC, Beat, Run, FolderTells, BusyAlone, Busy, FollowsFolder, Goes
<1>1. CASE Asks(s)
  <2>1. CASE Running
    BY <1>1, <2>1 DEF Asks, Running, Visible
  <2>2. CASE ~Running
    <3>1. shells = {} /\ active = {} /\ \A t \in Server : pc[t] \in {"idle", "own"}
      BY <1>1, <2>2 DEF Asks, Visible
    <3>2. pc' = [pc EXCEPT ![s] = "devcd"] /\ UNCHANGED <<follows, runs, dir, shells, active>>
      BY <1>1, <2>2 DEF Asks
    <3>3. ~Running'
      BY <2>2, <3>2 DEF Running
    <3>. QED
      BY <3>1, <3>2, <3>3
  <2>. QED
    BY <2>1, <2>2
<1>2. CASE Makes(s)
  <2>1. runs' \in Run /\ runs' # 0 /\ dir' = [run |-> runs', beat |-> "none", result |-> 0]
    BY <1>2 DEF Makes
  <2>2. pc[s] = "devcd" /\ pc' = [pc EXCEPT ![s] = "made"] /\ follows' = [follows EXCEPT ![s] = runs']
    BY <1>2 DEF Makes
  <2>3. UNCHANGED <<shells, active>>
    BY <1>2 DEF Makes
  <2>. QED
    BY <2>1, <2>2, <2>3 DEF Running
<1>3. CASE Types(s)
  <2>1. /\ pc[s] = "made" /\ pc' = [pc EXCEPT ![s] = "follow"]
        /\ UNCHANGED <<follows, runs, dir, active>>
    BY <1>3 DEF Types
  <2>2. /\ active = {} /\ dir.beat = "none" /\ dir.result = 0 /\ dir.run # 0
        /\ follows[s] = dir.run /\ \A t \in Server : t # s => pc[t] \in {"idle", "own"}
    BY <2>1
  <2>3. shells' = {dir.run}
    BY <1>3, <2>1, <2>2 DEF Types
  <2>4. dir.run \in Run
    BY <2>2
  <2>5. StartsTypeOK'
    BY <2>1, <2>3, <2>4
  <2>6. FolderTells'
    BY <2>1, <2>2, <2>3
  <2>. QED
    BY <2>1, <2>2, <2>5, <2>6
<1>4. CASE Falls(s)
  <2>1. /\ pc[s] \in {"devcd", "made"} /\ pc' = [pc EXCEPT ![s] = "own"]
        /\ follows' = [follows EXCEPT ![s] = 0] /\ UNCHANGED <<runs, dir, active>>
    BY <1>4 DEF Falls
  <2>2. /\ active = {} /\ shells = {} /\ \A t \in Server : t # s => pc[t] \in {"idle", "own"}
        /\ pc[s] = "made" =>
             follows[s] = dir.run /\ dir.run \in Run /\ dir.beat = "none" /\ dir.result = 0
    BY <2>1
  <2>3. shells' = {} \/ (pc[s] = "made" /\ shells' = {dir.run})
    BY <1>4, <2>2 DEF Falls
  <2>4. StartsTypeOK'
    BY <2>1, <2>2, <2>3
  <2>5. FolderTells'
    BY <2>1, <2>2, <2>3
  <2>6. \A t \in Server : pc'[t] \in {"idle", "own"}
    BY <2>1, <2>2
  <2>. QED
    BY <2>4, <2>5, <2>6
<1>5. CASE OwnEnds(s)
  BY <1>5 DEF OwnEnds, Running
<1>6. CASE Followed(s)
  BY <1>6 DEF Followed, Running
<1>7. CASE MakeFails(s)
  <2>1. /\ pc[s] = "devcd" /\ pc' = [pc EXCEPT ![s] = "idle"]
        /\ dir' = [dir EXCEPT !.beat = "none", !.result = 0]
        /\ UNCHANGED <<follows, runs, shells, active>>
    BY <1>7 DEF MakeFails
  <2>2. dir' = [run |-> dir.run, beat |-> "none", result |-> 0]
    BY <2>1
  <2>3. active = {} /\ shells = {} /\ \A t \in Server : pc'[t] \in {"idle", "own"}
    BY <2>1
  <2>4. StartsTypeOK' /\ FolderTells'
    BY <2>1, <2>2, <2>3
  <2>. QED
    BY <2>3, <2>4
<1>. QED
  BY <1>1, <1>2, <1>3, <1>4, <1>5, <1>6, <1>7 DEF Step

(* A run, its heartbeat, and servers that come and go.                     *)
LEMMA RunsKeepStartInv ==
  ASSUME ~Races, StartInv,
         \/ Beats
         \/ \E r \in Run : Begins(r) \/ Ends(r) \/ Dies(r)
         \/ \E s \in Server : ServerStops(s) \/ ServerStarts(s)
  PROVE  StartInv'
<1> USE StartsAssumption
<1> USE DEF StartInv, StartsTypeOK, PC, Beat, Run, FolderTells, BusyAlone, Busy, FollowsFolder,
            Running
<1>1. CASE Beats
  BY <1>1 DEF Beats
<1>2. ASSUME NEW r \in Run, Begins(r) PROVE StartInv'
  BY <1>2 DEF Begins
<1>3. ASSUME NEW r \in Run, Ends(r) PROVE StartInv'
  BY <1>3 DEF Ends
<1>4. ASSUME NEW r \in Run, Dies(r) PROVE StartInv'
  BY <1>4 DEF Dies
<1>5. ASSUME NEW s \in Server, ServerStops(s) PROVE StartInv'
  BY <1>5 DEF ServerStops
<1>6. ASSUME NEW s \in Server, ServerStarts(s) PROVE StartInv'
  BY <1>6 DEF ServerStarts
<1>. QED
  BY <1>1, <1>2, <1>3, <1>4, <1>5, <1>6

-----------------------------------------------------------------------------
(* The starts of Desktop.                                                  *)

(* A step of Desktop is one of the starts, a failure on the wire, or       *)
(* neither.                                                                *)
LEMMA DesktopSteps ==
  ASSUME [DesktopNext]_vars
  PROVE  \/ \E s \in Server : Asks(s) \/ Step(s)
         \/ Beats
         \/ \E r \in Run : Begins(r) \/ Ends(r) \/ Dies(r)
         \/ \E s \in Server : ServerStops(s) \/ ServerStarts(s)
         \/ UNCHANGED <<pc, follows, runs, dir, shells, active>>
<1>1. ASSUME NEW i \in Asked, Expires(i) \/ Dismissed(i) \/ Done(i) \/ StreamFails(i)
             \/ DismissReady(i) \/ DismissDone(i) \/ DismissalLost(i)
      PROVE  UNCHANGED <<pc, follows, runs, dir, shells, active>>
  BY <1>1
  DEF Expires, Dismissed, Done, StreamFails, DismissReady, DismissDone, DismissalLost, Fails, startVars
<1>2. ASSUME NEW i \in Asked, Confirm(i)
      PROVE  Asks(Home) \/ UNCHANGED <<pc, follows, runs, dir, shells, active>>
  BY <1>2 DEF Confirm, startVars
<1>3. Ask \/ Answers \/ Gets \/ PollFails \/ UNCHANGED vars
        => UNCHANGED <<pc, follows, runs, dir, shells, active>>
  BY DEF Ask, Answers, Gets, PollFails, Fails, startVars, vars
<1>4. HomeStops => ServerStops(Home)
  BY DEF HomeStops
<1>. QED
  BY <1>1, <1>2, <1>3, <1>4, DesktopAssumption
  DEF DesktopNext, CardStep, PageAsks, Starting, Serves

LEMMA StartInvKept == ~Races /\ StartInv /\ [DesktopNext]_vars => StartInv'
<1>1. StartInv /\ UNCHANGED <<pc, follows, runs, dir, shells, active>> => StartInv'
  BY DEF StartInv, StartsTypeOK, FolderTells, BusyAlone, Busy, FollowsFolder, Running
<1>. QED
  BY <1>1, DesktopSteps, ServersKeepStartInv, RunsKeepStartInv

LEMMA StartInvariant == ASSUME ~Races PROVE DesktopSpec => []StartInv
BY StartInvInit, StartInvKept, PTL DEF DesktopSpec, DesktopInit

(* A server never reports the outcome of another start than the one it     *)
(* followed, though every run writes the same result.json.                 *)
THEOREM DesktopTrueOutcome == ASSUME ~Races PROVE DesktopSpec => TrueOutcome
<1>1. StartInv =>
        [\A s \in Server : pc[s] = "follow" /\ pc'[s] = "idle" /\ s \in up' /\ dir.result # 0
           => dir.result = follows[s]]_startVars
  BY DEF StartInv, FolderTells, FollowsFolder
<1>. QED
  BY <1>1, StartInvariant, PTL DEF TrueOutcome

-----------------------------------------------------------------------------
(* The drawer.                                                             *)

DrawerTypeOK ==
  /\ asked \in 0..MaxAsks /\ pending \subseteq Asked /\ news \in Nat
  /\ cards \in [Id -> {"none", "ready", "running", "done"}]
  /\ serving \in 0..MaxAsks /\ confirmed \subseteq Asked /\ dismissals \subseteq Asked

(* An answer on its way tells of some of the news, and of today's queue if *)
(* it tells of all.                                                        *)
AnswerFits ==
  answer # <<>> =>
    /\ answer[1].read \in 0..news /\ answer[1].ids \subseteq Asked
    /\ answer[1].read = news => answer[1].ids = pending

(* The drawer has seen the queue as it is unless there is news.            *)
NoNewsIsSeen == news = 0 => \A i \in Id : cards[i] = "ready" => i \in pending

DrawerInv == DrawerTypeOK /\ AnswerFits /\ NoNewsIsSeen /\ StartIsShown

LEMMA DrawerInvInit == DesktopInit => DrawerInv
BY DesktopAssumption
DEF DesktopInit, DrawerInv, DrawerTypeOK, Asked, Id, AnswerFits, NoNewsIsSeen, StartIsShown

(* devc web's half: its queue, and the poll it answers.                    *)
LEMMA QueueKeepsDrawerInv ==
  ASSUME DrawerInv, Ask \/ Answers \/ \E i \in Asked : Expires(i) \/ Dismissed(i)
  PROVE  DrawerInv'
<1> USE DesktopAssumption
<1> USE DEF DrawerInv, DrawerTypeOK, Asked, Id, AnswerFits, NoNewsIsSeen, StartIsShown
<1>1. CASE Ask
  BY <1>1 DEF Ask
<1>2. CASE Answers
  <2>1. answer'[1].read = news /\ answer'[1].ids = pending
    BY <1>2 DEF Answers
  <2>2. UNCHANGED <<asked, pending, news, cards, dismissals, serving, confirmed>>
    BY <1>2 DEF Answers
  <2>3. AnswerFits'
    BY <2>1, <2>2
  <2>. QED
    BY <2>2, <2>3
<1>3. ASSUME NEW i \in Asked, Expires(i) \/ Dismissed(i) PROVE DrawerInv'
  <2>1. /\ pending' = pending \ {i} /\ dismissals' \subseteq dismissals
        /\ UNCHANGED <<asked, answer, cards, serving, confirmed>>
    BY <1>3 DEF Expires, Dismissed, Taken
  <2>2. (news' = news /\ pending' = pending) \/ news' = news + 1
    BY <1>3 DEF Expires, Dismissed, Taken
  <2>3. AnswerFits'
    BY <2>1, <2>2
  <2>4. NoNewsIsSeen'
    BY <2>1, <2>2
  <2>. QED
    BY <2>1, <2>2, <2>3, <2>4
<1>. QED
  BY <1>1, <1>2, <1>3

(* devc-desktop's half: what it reads, and what its user does.             *)
LEMMA CardsKeepDrawerInv ==
  ASSUME DrawerInv, Gets \/ PollFails \/ HomeStops \/ \E i \in Asked : CardStep(i)
  PROVE  DrawerInv'
<1> USE DesktopAssumption
<1> USE DEF DrawerInv, DrawerTypeOK, Asked, Id, AnswerFits, NoNewsIsSeen, StartIsShown
<1>1. CASE Gets
  <2>1. answer # <<>> /\ news' = news - answer[1].read /\ news' \in Nat /\ answer' = <<>>
    BY <1>1 DEF Gets
  <2>2. cards' \in [Id -> {"none", "ready", "running", "done"}]
    BY <1>1 DEF Gets, Reconciled
  <2>3. \A i \in Id : cards'[i] = "ready" => i \in answer[1].ids
    BY <1>1 DEF Gets, Reconciled
  <2>4. \A i \in Id : cards[i] = "running" => cards'[i] = "running"
    BY <1>1 DEF Gets, Reconciled
  <2>5. UNCHANGED <<asked, pending, dismissals, serving, confirmed>>
    BY <1>1 DEF Gets
  <2>. QED
    BY <2>1, <2>2, <2>3, <2>4, <2>5
<1>2. CASE PollFails
  BY <1>2 DEF PollFails
<1>3. CASE HomeStops
  BY <1>3 DEF HomeStops
<1>4. ASSUME NEW i \in Asked, Confirm(i) PROVE DrawerInv'
  BY <1>4 DEF Confirm
<1>5. ASSUME NEW i \in Asked, Done(i) \/ StreamFails(i) PROVE DrawerInv'
  <2>1. /\ cards[i] = "running" /\ cards' = [cards EXCEPT ![i] = "done"]
        /\ dismissals' \subseteq dismissals \cup {i}
        /\ UNCHANGED <<asked, pending, news, answer, confirmed>>
    BY <1>5 DEF Done, StreamFails, CardEnds
  <2>2. serving' \in {0, serving} \ {i}
    BY <1>5 DEF Done, StreamFails
  <2>3. DrawerTypeOK'
    BY <2>1, <2>2
  <2>4. \A j \in Id : cards'[j] = "ready" => cards[j] = "ready"
    BY <2>1
  <2>5. AnswerFits' /\ NoNewsIsSeen'
    BY <2>1, <2>4
  <2>6. StartIsShown'
    BY <2>1, <2>2
  <2>. QED
    BY <2>3, <2>5, <2>6
<1>6. ASSUME NEW i \in Asked, DismissReady(i) \/ DismissDone(i) \/ DismissalLost(i)
      PROVE  DrawerInv'
  <2>1. /\ UNCHANGED <<asked, pending, news, answer, serving, confirmed>>
        /\ dismissals' \subseteq dismissals \cup {i}
    BY <1>6 DEF DismissReady, DismissDone, DismissalLost
  <2>2. cards' = cards \/ (cards[i] # "running" /\ cards' = [cards EXCEPT ![i] = "none"])
    BY <1>6 DEF DismissReady, DismissDone, DismissalLost
  <2>3. DrawerTypeOK'
    BY <2>1, <2>2
  <2>4. \A j \in Id : cards'[j] = "ready" => cards[j] = "ready"
    BY <2>2
  <2>5. AnswerFits' /\ NoNewsIsSeen'
    BY <2>1, <2>4
  <2>6. StartIsShown'
    BY <2>1, <2>2
  <2>. QED
    BY <2>3, <2>5, <2>6
<1>. QED
  BY <1>1, <1>2, <1>3, <1>4, <1>5, <1>6 DEF CardStep

LEMMA DrawerInvKept == DrawerInv /\ [DesktopNext]_vars => DrawerInv'
<1> SUFFICES ASSUME DrawerInv, [DesktopNext]_vars PROVE DrawerInv'
  OBVIOUS
<1> DEFINE Kept == UNCHANGED <<asked, pending, news, answer, cards, dismissals, confirmed>>
                   /\ serving' \in {0, serving}
<1>1. Kept => DrawerInv'
  BY DesktopAssumption DEF DrawerInv, DrawerTypeOK, Asked, Id, AnswerFits, NoNewsIsSeen, StartIsShown
<1>2. UNCHANGED vars => Kept
  BY DEF vars, desktopVars
<1>3. (\E s \in Server : Serves(Asks(s)) \/ Serves(Step(s)) \/ Serves(ServerStops(s)) \/ Serves(ServerStarts(s)))
        \/ (\E r \in Run : Serves(Begins(r)) \/ Serves(Ends(r)) \/ Serves(Dies(r))) \/ Serves(Beats)
        => Kept
  BY DEF Serves
<1>. QED
  BY <1>1, <1>2, <1>3, QueueKeepsDrawerInv, CardsKeepDrawerInv
  DEF DesktopNext, PageAsks, Starting

(* "ones the server dropped go, unless confirmed", and a start that was    *)
(* confirmed keeps its card while devc web tells the app of it: whatever   *)
(* polls and streams fail, requests expire and servers come and go, and    *)
(* whoever else asks for starts.                                           *)
THEOREM DesktopDrawerFollows == DesktopSpec => [](DroppedGo /\ StartIsShown)
<1>1. DesktopSpec => []DrawerInv
  BY DrawerInvInit, DrawerInvKept, PTL DEF DesktopSpec
<1>2. DrawerInv => DroppedGo /\ StartIsShown
  BY DesktopAssumption
  DEF DrawerInv, DrawerTypeOK, NoNewsIsSeen, DroppedGo, StartIsShown, Asked, Id
<1>. QED
  BY <1>1, <1>2, PTL

-----------------------------------------------------------------------------
(* What was confirmed is asked once, if a card that is done is dismissed   *)
(* once its request has left the queue.                                    *)

OnceInv ==
  \A i \in confirmed :
    /\ cards[i] # "ready"
    /\ cards[i] = "none" => i \notin pending /\ (answer # <<>> => i \notin answer[1].ids)

LEMMA OnceInvKept == ~Races /\ DrawerInv /\ OnceInv /\ [DesktopNext]_vars => OnceInv'
<1> SUFFICES ASSUME ~Races, DrawerInv, OnceInv, [DesktopNext]_vars PROVE OnceInv'
  OBVIOUS
<1> USE DEF DrawerInv, DrawerTypeOK, Asked, Id, AnswerFits, OnceInv
<1>1. UNCHANGED <<pending, answer, cards, confirmed>> => OnceInv'
  OBVIOUS
<1>2. ASSUME NEW i \in Asked, Confirm(i) PROVE OnceInv'
  <2>1. /\ cards' = [cards EXCEPT ![i] = "running"] /\ confirmed' = confirmed \cup {i}
        /\ UNCHANGED <<pending, answer>>
    BY <1>2 DEF Confirm
  <2>2. i \in Id /\ confirmed \subseteq Id
    BY DesktopAssumption
  <2>. QED
    BY <2>1, <2>2
<1>3. ASSUME NEW i \in Asked, Expires(i) \/ Dismissed(i) PROVE OnceInv'
  BY <1>3 DEF Expires, Dismissed, Taken
<1>4. ASSUME NEW i \in Asked,
             Done(i) \/ StreamFails(i) \/ DismissReady(i) \/ DismissDone(i) \/ DismissalLost(i)
      PROVE  OnceInv'
  <2>1. CASE Done(i) \/ StreamFails(i)
    <3>1. /\ cards' = [cards EXCEPT ![i] = "done"] /\ UNCHANGED <<pending, answer, confirmed>>
      BY <2>1 DEF Done, StreamFails, CardEnds
    <3>. QED
      BY <3>1
  <2>2. CASE DismissReady(i)
    BY <1>4, <2>2 DEF DismissReady
  <2>3. CASE DismissDone(i)
    BY <1>4, <2>3 DEF DismissDone
  <2>4. CASE DismissalLost(i)
    BY <1>4, <2>4 DEF DismissalLost
  <2>. QED
    BY <1>4, <2>1, <2>2, <2>3, <2>4
<1>5. CASE Ask
  <2>1. pending' = {asked'} /\ UNCHANGED <<answer, cards, confirmed>>
    BY <1>5 DEF Ask
  <2>2. \A i \in confirmed : i # asked'
    BY <1>5, DesktopAssumption DEF Ask
  <2>. QED
    BY <2>1, <2>2
<1>6. CASE Answers
  <2>1. answer'[1].ids = pending /\ UNCHANGED <<pending, cards, confirmed>>
    BY <1>6 DEF Answers
  <2>. QED
    BY <2>1
<1>7. CASE Gets
  <2>1. answer # <<>> /\ answer' = <<>> /\ UNCHANGED <<pending, confirmed>>
    BY <1>7 DEF Gets
  <2>2. \A i \in Id : cards'[i] = IF cards[i] = "none" /\ i \in answer[1].ids THEN "ready"
                                ELSE IF cards[i] = "ready" /\ i \notin answer[1].ids THEN "none"
                                ELSE cards[i]
    BY <1>7 DEF Gets, Reconciled
  <2>3. confirmed \subseteq Id
    BY DesktopAssumption
  <2>. QED
    BY <2>1, <2>2, <2>3
<1>8. CASE PollFails \/ HomeStops
  <2>1. CASE PollFails
    BY <2>1 DEF PollFails
  <2>2. CASE HomeStops
    BY <2>2, DesktopAssumption DEF HomeStops
  <2>. QED
    BY <1>8, <2>1, <2>2
<1>. QED
  BY <1>1, <1>2, <1>3, <1>4, <1>5, <1>6, <1>7, <1>8
  DEF DesktopNext, CardStep, PageAsks, Starting, Serves, vars, desktopVars

(* The drawer agrees with the queue and with what the user did: what the   *)
(* server dropped goes, what was confirmed is shown, and it is not offered *)
(* again.                                                                  *)
THEOREM DesktopDrawerAgrees == ASSUME ~Races PROVE DesktopSpec => []DrawerAgrees
<1>1. DesktopInit => OnceInv
  BY DEF DesktopInit, OnceInv
<1>2. DesktopSpec => [](DrawerInv /\ OnceInv)
  BY <1>1, DrawerInvInit, DrawerInvKept, OnceInvKept, PTL DEF DesktopSpec
<1>3. DrawerInv /\ OnceInv => ConfirmedOnce
  BY DEF OnceInv, ConfirmedOnce
<1>. QED
  BY <1>2, <1>3, DesktopDrawerFollows, PTL DEF DrawerAgrees
=============================================================================
