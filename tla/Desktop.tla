------------------------------- MODULE Desktop -------------------------------
(***************************************************************************)
(* The page of a devc web asks devc-desktop to start the project: the      *)
(* queue of devc web (src/devc/web/desktop_requests.ts), the long poll of  *)
(* the app and the cards of its HOST drawer (devc-desktop's main.ts),      *)
(* composed with the starts a confirmed card begins (Starts).              *)
(***************************************************************************)
EXTENDS Starts

CONSTANTS
  Home,        \* the server that is devc-desktop's child
  MaxAsks      \* bound: requests queued

ASSUME DesktopAssumption == Home \in Server /\ MaxAsks \in Nat

VARIABLES
  asked,       \* the number of requests queued so far; a request's id is its number
  pending,     \* the queue: at most one request per folder
  news,        \* changes of the queue since the `after' of the app's poll (seq - after)
  answer,      \* the poll's answer on its way: a sequence of at most one
  cards,       \* the phase of each request's card in the drawer
  dismissals,  \* ids whose dismissal is on its way to devc web
  serving,     \* the card that devc web tells of the start it does (0: none)
  confirmed    \* history: the ids that were confirmed

desktopVars == <<asked, pending, news, answer, cards, dismissals, serving, confirmed>>
vars == <<startVars, desktopVars>>

Id == 1..MaxAsks
Asked == 1..asked

DesktopInit ==
  /\ Init
  /\ asked = 0 /\ pending = {}
  /\ news = 1 /\ answer = <<>>   \* the first `after' is -1
  /\ cards = [i \in Id |-> "none"]
  /\ dismissals = {} /\ serving = 0 /\ confirmed = {}

-----------------------------------------------------------------------------
(* devc web's queue.                                                       *)

(* add: asking again for what is pending changes nothing.                  *)
Ask ==
  /\ Home \in up
  /\ asked < MaxAsks
  /\ pending = {}
  /\ asked' = asked + 1
  /\ pending' = {asked'}
  /\ news' = news + 1
  /\ UNCHANGED <<startVars, answer, cards, dismissals, serving, confirmed>>

(* What leaves the queue changes its version.                              *)
Taken(i) ==
  /\ pending' = pending \ {i}
  /\ news' = IF i \in pending THEN news + 1 ELSE news

(* A request is dropped after REQUEST_TTL_MS.                              *)
Expires(i) ==
  /\ i \in pending
  /\ Taken(i)
  /\ UNCHANGED <<startVars, asked, answer, cards, dismissals, serving, confirmed>>

Dismissed(i) ==
  /\ i \in dismissals /\ Home \in up
  /\ Taken(i)
  /\ dismissals' = dismissals \ {i}
  /\ UNCHANGED <<startVars, asked, answer, cards, serving, confirmed>>

MutantAnswers ==
  /\ Home \in up /\ answer = <<>> /\ news > 0
  /\ answer' = <<[read |-> news, ids |-> pending]>>
  /\ UNCHANGED <<startVars, asked, pending, news, cards, dismissals, serving, confirmed>>

(* wait: answered once the version is another than `after', or the poll    *)
(* has waited LONG_POLL_MS.                                                *)
Answers ==
  /\ Home \in up /\ answer = <<>>
  /\ answer' = <<[read |-> news, ids |-> pending]>>
  /\ UNCHANGED <<startVars, asked, pending, news, cards, dismissals, serving, confirmed>>

-----------------------------------------------------------------------------
(* devc-desktop.                                                           *)

MutantReconciled(i, ids) == IF i \in ids THEN "ready" ELSE IF cards[i] = "ready" THEN "none" ELSE cards[i]

(* reconcile: a new request gets a card, one the server dropped loses its  *)
(* own unless it was confirmed.  The checks of a card are left out: it is  *)
(* "ready" at once.                                                        *)
Reconciled(i, ids) ==
  CASE cards[i] = "none" /\ i \in ids -> "ready"
    [] cards[i] = "ready" /\ i \notin ids -> "none"
    [] OTHER -> cards[i]

Gets ==
  /\ answer # <<>>
  /\ news' = news - answer[1].read
  /\ cards' = [i \in Id |-> Reconciled(i, answer[1].ids)]
  /\ answer' = <<>>
  /\ UNCHANGED <<startVars, asked, pending, dismissals, serving, confirmed>>

(* A poll, a dismissal or a stream fails, which MaxDeaths bounds too.      *)
Fails == deaths' = deaths + 1 /\ UNCHANGED <<up, pc, follows, runs, dir, shells, active>>

(* It is sent again, with the same `after'.                                *)
PollFails ==
  /\ answer # <<>> /\ deaths < MaxDeaths
  /\ Fails
  /\ answer' = <<>>
  /\ UNCHANGED <<asked, pending, news, cards, dismissals, serving, confirmed>>

(* confirm: a start is done by devc web, unless it refuses it (the project *)
(* is starting already, say) or the call does not reach it.                *)
Confirm(i) ==
  /\ cards[i] = "ready"
  /\ cards' = [cards EXCEPT ![i] = "running"]
  /\ confirmed' = confirmed \cup {i}
  /\ \/ pc[Home] = "idle" /\ Asks(Home) /\ serving' = i
     \/ UNCHANGED <<startVars, serving>>
  /\ UNCHANGED <<asked, pending, news, answer, dismissals>>

(* What was confirmed ends, with or without success.                       *)
CardEnds(i) ==
  /\ cards[i] = "running"
  /\ cards' = [cards EXCEPT ![i] = "done"]
  /\ dismissals' = IF Home \in up THEN dismissals \cup {i} ELSE dismissals
  /\ UNCHANGED <<asked, pending, news, answer, confirmed>>

Done(i) == serving # i /\ CardEnds(i) /\ UNCHANGED <<startVars, serving>>

(* The stream fails, which ends the card too: "the action carries on".     *)
StreamFails(i) ==
  /\ serving = i /\ deaths < MaxDeaths
  /\ Fails
  /\ serving' = 0
  /\ CardEnds(i)

(* dismiss.                                                                *)
DismissReady(i) ==
  /\ cards[i] = "ready"
  /\ cards' = [cards EXCEPT ![i] = "none"]
  /\ dismissals' = dismissals \cup {i}
  /\ UNCHANGED <<startVars, asked, pending, news, answer, serving, confirmed>>

DismissDone(i) ==
  /\ cards[i] = "done"
  /\ Races \/ (i \notin pending /\ (answer # <<>> => i \notin answer[1].ids))
  /\ cards' = [cards EXCEPT ![i] = "none"]
  /\ UNCHANGED <<startVars, asked, pending, news, answer, dismissals, serving, confirmed>>

(* dismissOnServer fails: "it expires on its own".                         *)
DismissalLost(i) ==
  /\ i \in dismissals /\ deaths < MaxDeaths
  /\ Fails
  /\ dismissals' = dismissals \ {i}
  /\ UNCHANGED <<asked, pending, news, answer, cards, serving, confirmed>>

-----------------------------------------------------------------------------
(* The starts of devc web; the card's stream ends with its start.          *)
Serves(step) ==
  /\ step
  /\ serving' = IF pc'[Home] = "idle" THEN 0 ELSE serving
  /\ UNCHANGED <<asked, pending, news, answer, cards, dismissals, confirmed>>

PageAsks(s) == Serves(Asks(s))
Starting(s) == Serves(Step(s))

(* The child exits (showStatus): its queue goes with it, and the cards     *)
(* that were not confirmed.                                                *)
HomeStops ==
  /\ ServerStops(Home)
  /\ pending' = {} /\ news' = 1
  /\ answer' = <<>> /\ dismissals' = {} /\ serving' = 0
  /\ cards' = [i \in Id |-> IF cards[i] = "ready" THEN "none" ELSE cards[i]]
  /\ UNCHANGED <<asked, confirmed>>


CardStep(i) ==
  \/ Confirm(i)
  \/ Done(i) \/ StreamFails(i)
  \/ DismissReady(i) \/ DismissDone(i)
  \/ DismissalLost(i)

DesktopNext ==
  \/ Ask
  \/ \E i \in Asked : Expires(i) \/ Dismissed(i) \/ CardStep(i)
  \/ Answers \/ Gets \/ PollFails
  \/ \E s \in Server : PageAsks(s) \/ Starting(s)
  \/ \E s \in Server \ {Home} : Serves(ServerStops(s))
  \/ \E s \in Server : Serves(ServerStarts(s))
  \/ HomeStops
  \/ \E r \in Run : Serves(Begins(r)) \/ Serves(Ends(r)) \/ Serves(Dies(r))
  \/ Serves(Beats)

(* As FairSpec of Starts (a run begins and ends once), and the poll is     *)
(* answered and read again and again.                                      *)
StartGoesOn == \E r \in Run : Serves(Begins(r)) \/ Serves(Ends(r))
DesktopSpec == DesktopInit /\ [][DesktopNext]_vars
FairDesktopSpec ==
  /\ DesktopSpec
  /\ WF_vars(Answers) /\ WF_vars(Gets)
  /\ \A s \in Server : WF_vars(Starting(s))
  /\ WF_vars(StartGoesOn) /\ WF_vars(Serves(Beats))

-----------------------------------------------------------------------------
(* Properties.                                                             *)

(* "New requests get a card and their checks; ones the server dropped go,  *)
(* unless confirmed": with nothing on its way, each card that can be       *)
(* confirmed is of a request that devc web still holds; and a start that   *)
(* was confirmed keeps its card while devc web tells the app of it.        *)
DroppedGo == news = 0 /\ answer = <<>> => \A i \in Asked : cards[i] = "ready" => i \in pending
StartIsShown == serving # 0 => cards[serving] = "running"

(* The user is asked once: what was confirmed is not offered again.        *)
ConfirmedOnce == \A i \in confirmed : cards[i] # "ready"

(* The drawer agrees with the queue and with what the user did.            *)
DrawerAgrees == DroppedGo /\ StartIsShown /\ ConfirmedOnce

(* "asked devc-desktop: confirm in the HOST drawer": a request in the      *)
(* queue gets a card, unless it leaves the queue before.                   *)
AsksAreShown == \A i \in Id : i \in pending ~> (cards[i] # "none" \/ i \notin pending)

=============================================================================
