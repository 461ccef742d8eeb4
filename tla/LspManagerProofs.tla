-------------------------- MODULE LspManagerProofs --------------------------
(***************************************************************************)
(* No language server is left behind, and the manager's two maps agree     *)
(* with its records, for any connections, keys and bounds, when nothing    *)
(* overlaps a restart or a stop of a session.                              *)
(***************************************************************************)
EXTENDS LspManager, SequenceTheorems, TLAPS

-----------------------------------------------------------------------------
(* Types.                                                                  *)

LEMMA MapIsSeq ==
  ASSUME NEW S, NEW n \in Nat, NEW f \in [1..n -> S]
  PROVE  f \in Seq(S) /\ Len(f) = n
OBVIOUS

(* One element of a sequence is another.                                   *)
LEMMA ElementSet ==
  ASSUME NEW S, NEW T, S \subseteq T, NEW q \in Seq(S), NEW i \in 1..Len(q), NEW e \in T,
         NEW r, r = [q EXCEPT ![i] = e]
  PROVE  /\ r \in Seq(T) /\ Len(r) = Len(q) /\ r[i] = e
         /\ \A j \in 1..Len(q) : j # i => r[j] = q[j]
<1>1. q \in Seq(T)
  BY SeqMonotonic
<1>. QED
  BY <1>1, ExceptSeq

(* One element more.                                                       *)
LEMMA ElementAdded ==
  ASSUME NEW S, NEW T, S \subseteq T, NEW q \in Seq(S), NEW e \in T, NEW r, r = Append(q, e)
  PROVE  /\ r \in Seq(T) /\ Len(r) = Len(q) + 1 /\ r[Len(q) + 1] = e
         /\ \A j \in 1..Len(q) : r[j] = q[j]
<1>1. q \in Seq(T)
  BY SeqMonotonic
<1>. QED
  BY <1>1

(* As sessions and processes are made, what is known of the others stays.  *)
LEMMA MoreSessions ==
  ASSUME Len(records) \in Nat, Len(procs) \in Nat, Len(records') \in Nat, Len(procs') \in Nat,
         Len(records) <= Len(records'), Len(procs) <= Len(procs')
  PROVE  Record \subseteq Record' /\ Proc \subseteq Proc' /\ Wait \subseteq Wait'
         /\ Sessions \subseteq Sessions'
<1>1. 0..Len(procs) \subseteq 0..Len(procs') /\ 1..Len(records) \subseteq 1..Len(records')
  OBVIOUS
<1>2. Record \subseteq Record'
  BY <1>1 DEF Record
<1>3. Proc \subseteq Proc'
  BY <1>1 DEF Proc
<1>4. Wait \subseteq Wait'
  BY <1>1 DEF Wait
<1>. QED
  BY <1>1, <1>2, <1>3, <1>4 DEF Sessions

LEMMA TypeFacts ==
  ASSUME ManagerTypeOK
  PROVE  /\ Len(records) \in Nat /\ Len(procs) \in Nat /\ byId \subseteq Sessions
         /\ Sessions = 1..Len(records)
         /\ \A k \in Key : byKey[k] \in 0..Len(records)
         /\ \A w \in waits : w \in Wait /\ w.session \in Sessions
         /\ \A s \in Sessions : records[s] \in Record /\ records[s].key \in Key
         /\ \A p \in 1..Len(procs) : procs[p] \in Proc /\ procs[p].session \in Sessions
<1> USE DEF ManagerTypeOK, Sessions
<1>1. Len(records) \in Nat /\ Len(procs) \in Nat
  OBVIOUS
<1>2. \A w \in waits : w \in Wait /\ w.session \in Sessions
  BY DEF Wait
<1>3. \A s \in Sessions : records[s] \in Record /\ records[s].key \in Key
  <2>1. \A s \in Sessions : records[s] \in Record
    OBVIOUS
  <2>. QED
    BY <2>1 DEF Record
<1>4. \A p \in 1..Len(procs) : procs[p] \in Proc /\ procs[p].session \in Sessions
  <2>1. \A p \in 1..Len(procs) : procs[p] \in Proc
    OBVIOUS
  <2>. QED
    BY <2>1 DEF Proc
<1>. QED
  BY <1>1, <1>2, <1>3, <1>4

(* Ended and killed processes are of the sessions they were of.            *)
LEMMA KilledProcs ==
  ASSUME ManagerTypeOK, NEW ps
  PROVE  /\ Killed(ps) \in Seq(Proc) /\ Len(Killed(ps)) = Len(procs)
         /\ \A p \in 1..Len(procs) :
              /\ Killed(ps)[p].session = procs[p].session
              /\ Killed(ps)[p].state = "running" <=> procs[p].state = "running" /\ p \notin ps
<1>1. Len(procs) \in Nat /\ \A p \in 1..Len(procs) : procs[p] \in Proc
  BY DEF ManagerTypeOK
<1>2. Killed(ps) \in [1..Len(procs) -> Proc]
  BY <1>1 DEF Killed, Proc
<1>3. Killed(ps) \in Seq(Proc) /\ Len(Killed(ps)) = Len(procs)
  BY <1>1, <1>2, MapIsSeq
<1>4. ASSUME NEW p \in 1..Len(procs)
      PROVE  /\ Killed(ps)[p].session = procs[p].session
             /\ Killed(ps)[p].state = "running" <=> procs[p].state = "running" /\ p \notin ps
  BY <1>1, <1>4 DEF Killed, Proc
<1>. QED
  BY <1>3, <1>4

-----------------------------------------------------------------------------
(* The invariant.                                                          *)

Live(s) == byKey[records[s].key] = s

(* What a stop or a restart found holds until it goes on.                  *)
WaitsFit ==
  \A w \in waits :
    /\ w.next # "nothing" => records[w.session].stopping /\ records[w.session].proc = 0
    /\ w.next = "restart" => Live(w.session)
    /\ w.next = "stop" => records[w.session].ended

OneWait ==
  \A v, w \in waits :
    v.session = w.session /\ v.next # "nothing" /\ w.next # "nothing" => v = w

ManagerInv == ManagerTypeOK /\ MapsAgree /\ StateAgrees /\ WaitsFit /\ OneWait /\ NoOrphans

LEMMA ManagerInvInit == ManagerInit => ManagerInv
<1> SUFFICES ASSUME ManagerInit PROVE ManagerInv
  OBVIOUS
<1>1. records \in Seq(Record) /\ procs \in Seq(Proc) /\ Len(records) = 0 /\ Len(procs) = 0
  BY EmptySeq DEF ManagerInit
<1>2. ManagerTypeOK
  BY <1>1 DEF ManagerInit, ManagerTypeOK
<1>3. MapsAgree /\ StateAgrees /\ WaitsFit /\ OneWait /\ NoOrphans
  BY <1>1 DEF ManagerInit, MapsAgree, StateAgrees, WaitsFit, OneWait, NoOrphans, Running
<1>. QED
  BY <1>2, <1>3 DEF ManagerInv

(* A session is what it was, as far as the manager is concerned.           *)
SameRecord(s) ==
  /\ records'[s].key = records[s].key /\ records'[s].ended = records[s].ended
  /\ records'[s].proc = records[s].proc /\ records'[s].stopping = records[s].stopping

(* ... and as far as its pages are.                                        *)
SameState(s) ==
  /\ records'[s].state = records[s].state /\ records'[s].port = records[s].port

SameProcs ==
  /\ Len(procs') = Len(procs)
  /\ \A p \in 1..Len(procs) :
       /\ procs'[p].session = procs[p].session
       /\ procs'[p].state = "running" => procs[p].state = "running"

(* No session begins, ends, waits or goes on.                              *)
Quiet ==
  /\ Len(records') = Len(records) /\ \A s \in Sessions : SameRecord(s)
  /\ SameProcs
  /\ byKey' = byKey /\ waits' = waits
  /\ byId' \subseteq byId /\ \A s \in byId \ byId' : records[s].ended
  /\ \A s \in byId' : SameState(s) \/ Told(s)'

LEMMA QuietKeeps ==
  ASSUME ManagerInv, Quiet, ManagerTypeOK'
  PROVE  ManagerInv'
<1> USE DEF ManagerInv, Quiet, SameRecord, SameProcs, Live
<1>0. byId \subseteq Sessions /\ \A s \in Sessions : records[s].key \in Key
  BY TypeFacts
<1>1. MapsAgree'
  <2>1. \A k \in Key : byKey[k] # 0 => ~records[byKey[k]].ended /\ byKey[k] \in Sessions
    BY <1>0, TypeFacts DEF MapsAgree
  <2>2. \A k \in Key : byKey'[k] # 0 => byKey'[k] \in byId' /\ records'[byKey'[k]].key = k
    BY <1>0, <2>1, TypeFacts DEF MapsAgree
  <2>3. \A s \in byId' : records'[s].ended <=> byKey'[records'[s].key] # s
    BY <1>0, TypeFacts DEF MapsAgree
  <2>. QED
    BY <2>2, <2>3 DEF MapsAgree
<1>2. StateAgrees'
  <2>1. ASSUME NEW s \in byId', SameState(s) PROVE Told(s)'
    <3>1. s \in byId /\ s \in Sessions /\ Told(s)
      BY <2>1, TypeFacts DEF StateAgrees
    <3>2. /\ records'[s].ended = records[s].ended /\ records'[s].stopping = records[s].stopping
          /\ records'[s].state = records[s].state /\ records'[s].port = records[s].port
      BY <2>1, <3>1 DEF SameState
    <3>3. StopWaits(s)' <=> StopWaits(s)
      BY DEF StopWaits
    <3>. QED
      BY <3>1, <3>2, <3>3 DEF Told
  <2>. QED
    BY <2>1 DEF StateAgrees
<1>3. WaitsFit'
  BY <1>0, TypeFacts DEF WaitsFit
<1>4. OneWait'
  BY DEF OneWait
<1>5. NoOrphans'
  BY <1>0, TypeFacts DEF NoOrphans, Running, Closes
<1>. QED
  BY <1>1, <1>2, <1>3, <1>4, <1>5

-----------------------------------------------------------------------------
(* Quiet steps.                                                            *)

LEMMA NothingKeeps ==
  ASSUME ManagerInv, UNCHANGED <<records, byKey, byId, procs, waits>>,
         open' \subseteq Peer, attaching' \subseteq Peer \X Key
  PROVE  ManagerInv'
<1>1. ManagerTypeOK'
  BY DEF ManagerInv, ManagerTypeOK, Record, Proc, Wait, Sessions
<1>2. Quiet
  BY DEF Quiet, SameRecord, SameState, SameProcs
<1>. QED
  BY <1>1, <1>2, QuietKeeps

(* One session changes in what its pages see only.                         *)
LEMMA OneQuiet ==
  ASSUME ManagerInv, UNCHANGED <<byKey, byId, procs, waits, open>>, attaching' \subseteq Peer \X Key,
         NEW s \in Sessions, NEW r \in Record, records' = [records EXCEPT ![s] = r],
         r.key = records[s].key, r.ended = records[s].ended, r.proc = records[s].proc,
         r.stopping = records[s].stopping,
         (r.state = records[s].state /\ r.port = records[s].port) \/ (s \in byId => Told(s)')
  PROVE  ManagerInv'
<1>1. /\ records' \in Seq(Record) /\ Len(records') = Len(records) /\ records'[s] = r
      /\ \A t \in Sessions : t # s => records'[t] = records[t]
  BY ElementSet DEF ManagerInv, ManagerTypeOK, Sessions
<1>2. ManagerTypeOK'
  BY <1>1 DEF ManagerInv, ManagerTypeOK, Record, Proc, Wait, Sessions
<1>3. Quiet
  BY <1>1, TypeFacts DEF Quiet, SameRecord, SameState, SameProcs, ManagerInv
<1>. QED
  BY <1>2, <1>3, QuietKeeps

LEMMA DetachKeeps ==
  ASSUME ManagerInv, NEW c \in Peer, NEW ss, Detach(c, ss),
         open' \subseteq Peer, UNCHANGED <<attaching, byKey, procs, waits>>
  PROVE  ManagerInv'
<1> USE DEF ManagerInv
<1>1. ASSUME NEW s \in Sessions PROVE Detached(c, ss)[s] \in Record
  <2>1. PICK armed \in BOOLEAN :
          armed = (records[s].idle \/ (records[s].peers = {c} /\ records[s].state # "exited"))
    OBVIOUS
  <2>2. PICK left : left = records[s].peers \ {c}
    OBVIOUS
  <2>3. Detached(c, ss)[s] \in {records[s], [records[s] EXCEPT !.peers = left, !.idle = armed]}
    BY <2>1, <2>2 DEF Detached
  <2>4. left \in SUBSET Peer
    BY <2>2, TypeFacts DEF Record
  <2>. QED
    BY <2>3, <2>4, TypeFacts DEF Record
<1>2. records' = Detached(c, ss) /\ records' \in [Sessions -> Record]
  BY <1>1 DEF Detach, Detached
<1>3. records' \in Seq(Record) /\ Len(records') = Len(records)
  BY <1>2, MapIsSeq, TypeFacts
<1>4. ASSUME NEW s \in Sessions PROVE SameRecord(s) /\ SameState(s)
  BY <1>2, TypeFacts DEF Detached, Record, SameRecord, SameState
<1>5. byId' \subseteq byId /\ \A s \in byId \ byId' : records[s].ended
  BY DEF Detach
<1>6. ManagerTypeOK'
  BY <1>3, <1>5 DEF ManagerTypeOK, Record, Proc, Wait, Sessions
<1>7. Quiet
  BY <1>3, <1>4, <1>5, TypeFacts DEF Quiet, SameProcs
<1>. QED
  BY <1>6, <1>7, QuietKeeps

(* Attaching to what there is, and detaching.                              *)
LEMMA PagesKeep ==
  ASSUME ManagerInv, NEW c \in Peer,
         \/ \E k \in Key : Attach(c, k) \/ AttachRefused(c, k) \/ AttachReuses(c, k)
         \/ \E s \in Sessions : LspDetach(c, s)
         \/ Disconnect(c) \/ Reconnect(c)
  PROVE  ManagerInv'
<1> USE DEF ManagerInv
<1>1. open \subseteq Peer /\ attaching \subseteq Peer \X Key
  BY DEF ManagerTypeOK
<1>2. ASSUME NEW k \in Key, Attach(c, k) \/ AttachRefused(c, k) PROVE ManagerInv'
  <2>1. open' \subseteq Peer /\ attaching' \subseteq Peer \X Key
    BY <1>1, <1>2 DEF Attach, AttachRefused
  <2>2. UNCHANGED <<records, byKey, byId, procs, waits>>
    BY <1>2 DEF Attach, AttachRefused
  <2>. QED
    BY <2>1, <2>2, NothingKeeps
<1>3. ASSUME NEW k \in Key, AttachReuses(c, k) PROVE ManagerInv'
  <2>1. PICK s \in Sessions : s = byKey[k]
    BY <1>3, TypeFacts DEF AttachReuses
  <2>2. PICK r : r = [records[s] EXCEPT !.peers = @ \cup {c}, !.idle = FALSE]
    OBVIOUS
  <2>3. r \in Record /\ r.key = records[s].key /\ r.ended = records[s].ended
        /\ r.proc = records[s].proc /\ r.stopping = records[s].stopping
        /\ r.state = records[s].state /\ r.port = records[s].port
    BY <2>2, TypeFacts DEF Record
  <2>4. records' = [records EXCEPT ![s] = r]
    BY <1>3, <2>1, <2>2, TypeFacts DEF AttachReuses, ManagerTypeOK, Sessions
  <2>5. UNCHANGED <<byKey, byId, procs, waits, open>> /\ attaching' \subseteq Peer \X Key
    BY <1>1, <1>3 DEF AttachReuses
  <2>. QED
    BY <2>3, <2>4, <2>5, OneQuiet
<1>4. ASSUME NEW s \in Sessions, LspDetach(c, s) PROVE ManagerInv'
  BY <1>1, <1>4, DetachKeeps DEF LspDetach
<1>5. CASE Disconnect(c)
  <2>1. open' \subseteq Peer /\ UNCHANGED <<attaching, byKey, procs, waits>>
    BY <1>1, <1>5 DEF Disconnect
  <2>. QED
    BY <1>5, <2>1, DetachKeeps DEF Disconnect
<1>6. CASE Reconnect(c)
  BY <1>1, <1>6, NothingKeeps DEF Reconnect
<1>. QED
  BY <1>2, <1>3, <1>4, <1>5, <1>6

(* An idle timer finds pages or nothing to stop.                           *)
LEMMA IdleKeeps ==
  ASSUME ManagerInv, NEW s \in Sessions, IdleFires(s), UNCHANGED <<byKey, byId, waits>>,
         records' = [records EXCEPT ![s].idle = FALSE]
  PROVE  ManagerInv'
<1> USE DEF ManagerInv
<1>1. PICK r : r = [records[s] EXCEPT !.idle = FALSE]
  OBVIOUS
<1>2. /\ r \in Record /\ r.key = records[s].key /\ r.ended = records[s].ended
      /\ r.proc = records[s].proc /\ r.stopping = records[s].stopping
      /\ r.state = records[s].state /\ r.port = records[s].port
  BY <1>1, TypeFacts DEF Record
<1>3. records' = [records EXCEPT ![s] = r]
  BY <1>1
<1>4. UNCHANGED <<byKey, byId, procs, waits, open>> /\ attaching' \subseteq Peer \X Key
  BY DEF IdleFires, ManagerTypeOK
<1>. QED
  BY <1>2, <1>3, <1>4, OneQuiet

(* initialize is answered, of an ended session too: then it is stopped     *)
(* later, or its server's exit is to be reported.                          *)
LEMMA InitializedKeeps ==
  ASSUME ~LateAnswer, ManagerInv, NEW s \in Sessions, Initialized(s)
  PROVE  ManagerInv'
<1> USE DEF ManagerInv
<1>1. PICK r : r = [records[s] EXCEPT !.state = "ready", !.asked = FALSE]
  OBVIOUS
<1>2. /\ r \in Record /\ r.key = records[s].key /\ r.ended = records[s].ended
      /\ r.proc = records[s].proc /\ r.stopping = records[s].stopping
      /\ r.state = "ready" /\ r.port = records[s].port
  BY <1>1, TypeFacts DEF Record
<1>3. records' = [records EXCEPT ![s] = r]
  BY <1>1, TypeFacts DEF Initialized, ManagerTypeOK, Sessions
<1>4. UNCHANGED <<byKey, byId, procs, waits, open>> /\ attaching' \subseteq Peer \X Key
  BY DEF Initialized, ManagerTypeOK
<1>5. Told(s)'
  <2>1. records'[s] = r
    BY <1>2, <1>3, ElementSet DEF ManagerTypeOK, Sessions
  <2>2. records[s].port # 0 /\ (~records[s].ended \/ ~records[s].stopping \/ StopWaits(s))
    BY DEF Initialized, Answered
  <2>3. StopWaits(s)' <=> StopWaits(s)
    BY <1>4 DEF StopWaits
  <2>. QED
    BY <1>2, <2>1, <2>2, <2>3 DEF Told
<1>. QED
  BY <1>2, <1>3, <1>4, <1>5, OneQuiet

LEMMA ExitsKeeps ==
  ASSUME ManagerInv, NEW p \in 1..Len(procs), Exits(p)
  PROVE  ManagerInv'
<1> USE DEF ManagerInv
<1>1. procs' \in Seq(Proc) /\ Len(procs') = Len(procs) /\ SameProcs
  BY KilledProcs DEF Exits, SameProcs
<1>2. ManagerTypeOK'
  BY <1>1 DEF Exits, ManagerTypeOK, Record, Proc, Wait, Sessions
<1>3. Quiet
  BY <1>1 DEF Exits, Quiet, SameRecord, SameState
<1>. QED
  BY <1>2, <1>3, QuietKeeps

-----------------------------------------------------------------------------
(* A stop or a restart begins.                                             *)

(* Taken out of #byKey: the other sessions are as live as they were.       *)
LEMMA UnkeyedRest ==
  ASSUME ManagerTypeOK, NEW gone \in SUBSET Sessions, Unkey(gone)
  PROVE  /\ byKey' \in [Key -> 0..Len(records)]
         /\ \A k \in Key : byKey'[k] = 0 \/ (byKey'[k] = byKey[k] /\ byKey[k] \notin gone)
         /\ \A k \in Key, s \in Sessions : byKey'[k] = s <=> byKey[k] = s /\ s \notin gone
<1>1. \A k \in Key : byKey'[k] = IF byKey[k] \in gone THEN 0 ELSE byKey[k]
  BY DEF Unkey
<1>2. byKey' \in [Key -> 0..Len(records)]
  BY TypeFacts DEF Unkey
<1>3. \A s \in Sessions : s # 0
  BY TypeFacts
<1>. QED
  BY <1>1, <1>2, <1>3, TypeFacts

(* What begins a stop or a restart does to the rest.                       *)
LEMMA BeginKeeps ==
  ASSUME ~Overlap, ManagerInv, NEW s \in Sessions, Undisturbed(s),
         NEW next \in {"stop", "restart"}, Begin(s, next),
         NEW r \in Record, records' = [records EXCEPT ![s] = r],
         r.key = records[s].key, r.proc = 0, r.stopping, r.state = records[s].state,
         r.port = records[s].port,
         UNCHANGED <<open, attaching, procs>>,
         \/ next = "restart" /\ Live(s) /\ UNCHANGED <<byKey, byId>> /\ r.ended = records[s].ended
         \/ next = "stop" /\ Unkey({s}) /\ Unname({s}) /\ r.ended
  PROVE  ManagerInv'
<1> USE DEF ManagerInv
<1>1. /\ records' \in Seq(Record) /\ Len(records') = Len(records) /\ records'[s] = r
      /\ \A t \in Sessions : t # s => records'[t] = records[t]
  BY ElementSet DEF ManagerTypeOK, Sessions
<1>2. PICK w \in Wait : w = [session |-> s, proc |-> records[s].proc, next |-> next]
  BY TypeFacts DEF Wait, Record
<1>3. waits' = waits \cup {w} /\ w.session = s /\ w.proc = records[s].proc /\ w.next = next
  BY <1>2 DEF Begin
<1>4. \A v \in waits : v.session = s => v.next = "nothing"
  BY DEF Undisturbed
<1>5. /\ byKey' \in [Key -> 0..Len(records)]
      /\ \A k \in Key : byKey'[k] = 0 \/ byKey'[k] = byKey[k]
      /\ \A k \in Key, t \in Sessions : t # s => (byKey'[k] = t <=> byKey[k] = t)
      /\ next = "stop" => \A k \in Key : byKey'[k] # s
      /\ next = "restart" => byKey' = byKey
  BY UnkeyedRest, TypeFacts DEF ManagerTypeOK
<1>6. /\ byId' \subseteq byId /\ \A t \in byId : t # s => t \in byId'
      /\ next = "restart" => byId' = byId
  BY DEF Unname
<1>7. ManagerTypeOK'
  BY <1>1, <1>3, <1>5, <1>6, <1>2 DEF ManagerTypeOK, Record, Proc, Wait, Sessions
<1>8. \A t \in Sessions : records'[t].key = records[t].key /\ records[t].key \in Key
  BY <1>1, TypeFacts
<1>9. MapsAgree'
  <2>1. ASSUME NEW k \in Key, byKey'[k] # 0
        PROVE  byKey'[k] \in byId' /\ records'[byKey'[k]].key = k
    BY <1>5, <1>6, <1>8, <2>1, TypeFacts DEF MapsAgree
  <2>2. ASSUME NEW t \in byId', t # s PROVE records'[t].ended <=> byKey'[records'[t].key] # t
    BY <1>1, <1>5, <1>6, <1>8, <2>2, TypeFacts DEF MapsAgree
  <2>3. ASSUME s \in byId' PROVE records'[s].ended <=> byKey'[records'[s].key] # s
    BY <1>1, <1>5, <1>6, <1>8, <2>3, TypeFacts DEF MapsAgree
  <2>. QED
    BY <2>1, <2>2, <2>3 DEF MapsAgree
<1>10. StateAgrees'
  <2>1. ASSUME NEW t \in byId', t # s PROVE Told(t)'
    <3>1. t \in byId /\ t \in Sessions /\ records'[t] = records[t] /\ Told(t)
      BY <1>1, <1>6, <2>1, TypeFacts DEF StateAgrees
    <3>2. StopWaits(t) => StopWaits(t)'
      BY <1>3 DEF StopWaits
    <3>. QED
      BY <3>1, <3>2 DEF Told
  <2>2. ASSUME s \in byId' PROVE Told(s)'
    <3>1. s \in byId /\ Told(s)
      BY <1>6, <2>2 DEF StateAgrees
    <3>2. next = "stop" => StopWaits(s)'
      BY <1>3 DEF StopWaits
    <3>3. next = "restart" => ~records[s].ended
      BY <3>1 DEF MapsAgree, Live
    <3>. QED
      BY <1>1, <3>1, <3>2, <3>3 DEF Told
  <2>. QED
    BY <2>1, <2>2 DEF StateAgrees
<1>11. WaitsFit'
  <2>1. ASSUME NEW v \in waits, v.session # s
        PROVE  /\ v.next # "nothing" => records'[v.session].stopping /\ records'[v.session].proc = 0
               /\ v.next = "restart" => Live(v.session)'
               /\ v.next = "stop" => records'[v.session].ended
    BY <1>1, <1>5, <1>8, <2>1, TypeFacts DEF WaitsFit, Live
  <2>2. /\ records'[s].stopping /\ records'[s].proc = 0
        /\ next = "restart" => Live(s)'
        /\ next = "stop" => records'[s].ended
    BY <1>1, <1>5, <1>8 DEF Live
  <2>. QED
    BY <1>3, <1>4, <2>1, <2>2 DEF WaitsFit
<1>12. OneWait'
  BY <1>3, <1>4 DEF OneWait
<1>13. NoOrphans'
  <2>1. ASSUME NEW p \in 1..Len(procs), procs[p].state = "running", ~Closes(p)'
        PROVE  records'[procs[p].session].proc = p
                 /\ byKey'[records'[procs[p].session].key] = procs[p].session
    <3>1. ~Closes(p) /\ p # records[s].proc
      BY <1>3, <2>1 DEF Closes
    <3>. QED
      BY <1>1, <1>5, <1>8, <2>1, <3>1, TypeFacts DEF NoOrphans, Running
  <2>. QED
    BY <2>1 DEF NoOrphans, Running
<1>. QED
  BY <1>7, <1>9, <1>10, <1>11, <1>12, <1>13

(* lsp_restart, a stop, and the idle timer of a session without pages.     *)
LEMMA StopsKeep ==
  ASSUME ~Overlap, ManagerInv, NEW s \in Sessions,
         (\E c \in Peer : Restart(c, s)) \/ Stop(s) \/ IdleFires(s)
  PROVE  ManagerInv'
<1> USE DEF ManagerInv
<1>1. ASSUME NEW c \in Peer, Restart(c, s) PROVE ManagerInv'
  <2>1. PICK r : r = [records[s] EXCEPT !.proc = 0, !.stopping = TRUE]
    OBVIOUS
  <2>2. r \in Record /\ r.key = records[s].key /\ r.ended = records[s].ended
        /\ r.proc = 0 /\ r.stopping /\ r.state = records[s].state /\ r.port = records[s].port
    <3>1. records[s] \in Record /\ 0 \in 0..Len(procs)
      BY TypeFacts
    <3>2. r \in Record
      BY <2>1, <3>1 DEF Record
    <3>3. r.key = records[s].key /\ r.ended = records[s].ended
          /\ r.state = records[s].state /\ r.port = records[s].port
      BY <2>1, <3>1 DEF Record
    <3>4. r.proc = 0 /\ r.stopping = TRUE
      BY <2>1, <3>1 DEF Record
    <3>. QED
      BY <3>2, <3>3, <3>4
  <2>3. records' = [records EXCEPT ![s] = r]
    BY <1>1, <2>1 DEF Restart, Stopping
  <2>4. Undisturbed(s) /\ Begin(s, "restart") /\ UNCHANGED <<open, attaching, procs, byKey, byId>>
    BY <1>1 DEF Restart
  <2>5. Live(s)
    BY <1>1 DEF Restart, Asks, MapsAgree, Live
  <2>. QED
    BY <2>2, <2>3, <2>4, <2>5, BeginKeeps
<1>2. ASSUME NEW b \in BOOLEAN,
             records' = [records EXCEPT ![s] = [Stopping(Retired(@)) EXCEPT !.idle = b]],
             Undisturbed(s), Begin(s, "stop"), Unkey({s}), Unname({s}),
             UNCHANGED <<open, attaching, procs>>
      PROVE  ManagerInv'
  <2>1. PICK r : r = [records[s] EXCEPT !.ended = TRUE, !.proc = 0, !.stopping = TRUE, !.idle = b]
    OBVIOUS
  <2>2. r \in Record /\ r.key = records[s].key /\ r.ended
        /\ r.proc = 0 /\ r.stopping /\ r.state = records[s].state /\ r.port = records[s].port
    <3>1. records[s] \in Record /\ 0 \in 0..Len(procs)
      BY TypeFacts
    <3>2. r \in Record
      BY <2>1, <3>1 DEF Record
    <3>3. r.key = records[s].key /\ r.ended = TRUE
          /\ r.state = records[s].state /\ r.port = records[s].port
      BY <2>1, <3>1 DEF Record
    <3>4. r.proc = 0 /\ r.stopping = TRUE
      BY <2>1, <3>1 DEF Record
    <3>. QED
      BY <3>2, <3>3, <3>4
  <2>3. records' = [records EXCEPT ![s] = r]
    BY <1>2, <2>1 DEF Stopping, Retired
  <2>. QED
    BY <1>2, <2>2, <2>3, BeginKeeps
<1>3. CASE Stop(s)
  <2>1. PICK b \in BOOLEAN : b = records[s].idle
    BY TypeFacts DEF Record
  <2>2. [Stopping(Retired(records[s])) EXCEPT !.idle = b] = Stopping(Retired(records[s]))
    BY <2>1, TypeFacts DEF Stopping, Retired, Record
  <2>3. records' = [records EXCEPT ![s] = [Stopping(Retired(@)) EXCEPT !.idle = b]]
    BY <1>3, <2>2 DEF Stop
  <2>. QED
    BY <1>2, <1>3, <2>3 DEF Stop
<1>4. CASE IdleFires(s)
  BY <1>2, <1>4, IdleKeeps DEF IdleFires
<1>. QED
  BY <1>1, <1>3, <1>4

-----------------------------------------------------------------------------
(* A wait is over.                                                         *)

(* A server that nobody closes once a wait for another is over.            *)
LEMMA RunsOn ==
  ASSUME ManagerInv, NEW w \in waits, waits' = waits \ {w}, NEW p \in 1..Len(procs),
         procs'[p].session = Killed({w.proc})[p].session,
         procs'[p].state = Killed({w.proc})[p].state,
         procs'[p].state = "running", ~Closes(p)'
  PROVE  /\ procs'[p].session = procs[p].session /\ procs[p].session \in Sessions
         /\ records[procs[p].session].proc = p
         /\ byKey[records[procs[p].session].key] = procs[p].session
<1> USE DEF ManagerInv
<1>1. procs'[p].session = procs[p].session /\ procs[p].state = "running" /\ p # w.proc
  BY KilledProcs
<1>2. ~Closes(p)
  BY <1>1 DEF Closes
<1>. QED
  BY <1>1, <1>2, TypeFacts DEF NoOrphans, Running

LEMMA ClosedKeeps ==
  ASSUME ManagerInv, NEW w \in waits, Closed(w)
  PROVE  ManagerInv'
<1> USE DEF ManagerInv
<1>1. UNCHANGED <<open, attaching, records, byKey, byId>> /\ waits' = waits \ {w}
      /\ procs' = Killed({w.proc}) /\ w.next = "nothing"
  BY DEF Closed
<1>2. procs' \in Seq(Proc) /\ Len(procs') = Len(procs)
  BY <1>1, KilledProcs
<1>3. ManagerTypeOK'
  BY <1>1, <1>2 DEF ManagerTypeOK, Record, Proc, Wait, Sessions
<1>4. MapsAgree' /\ StateAgrees' /\ WaitsFit' /\ OneWait'
  BY <1>1 DEF MapsAgree, StateAgrees, Told, StopWaits, WaitsFit, OneWait, Live
<1>5. NoOrphans'
  <2>1. ASSUME NEW p \in 1..Len(procs), procs'[p].state = "running", ~Closes(p)'
        PROVE  /\ records'[procs'[p].session].proc = p
               /\ byKey'[records'[procs'[p].session].key] = procs'[p].session
    BY <1>1, <2>1, RunsOn
  <2>. QED
    BY <1>2, <2>1 DEF NoOrphans, Running
<1>. QED
  BY <1>3, <1>4, <1>5

LEMMA StopEndsKeeps ==
  ASSUME ManagerInv, NEW w \in waits, StopEnds(w)
  PROVE  ManagerInv'
<1> USE DEF ManagerInv
<1>1. PICK s \in Sessions : s = w.session
  BY TypeFacts
<1>2. UNCHANGED <<open, attaching, byKey, byId>> /\ waits' = waits \ {w}
      /\ procs' = Killed({w.proc}) /\ w.next = "stop"
  BY DEF StopEnds
<1>3. procs' \in Seq(Proc) /\ Len(procs') = Len(procs)
  BY <1>2, KilledProcs
<1>4. PICK r : r = [records[s] EXCEPT !.state = "exited", !.idle = FALSE]
  OBVIOUS
<1>5. /\ r \in Record /\ r.key = records[s].key /\ r.ended = records[s].ended
      /\ r.proc = records[s].proc /\ r.stopping = records[s].stopping /\ r.state = "exited"
  BY <1>4, TypeFacts DEF Record
<1>6. records' = [records EXCEPT ![s] = r]
  BY <1>1, <1>4 DEF StopEnds, MarkedExited
<1>7. /\ records' \in Seq(Record) /\ Len(records') = Len(records) /\ records'[s] = r
      /\ \A t \in Sessions : t # s => records'[t] = records[t]
  BY <1>5, <1>6, ElementSet DEF ManagerTypeOK, Sessions
<1>8. ManagerTypeOK'
  BY <1>2, <1>3, <1>7 DEF ManagerTypeOK, Record, Proc, Wait, Sessions
<1>9. \A t \in Sessions :
        /\ records'[t].key = records[t].key /\ records'[t].ended = records[t].ended
        /\ records'[t].proc = records[t].proc /\ records'[t].stopping = records[t].stopping
  BY <1>5, <1>7
<1>10. MapsAgree'
  BY <1>2, <1>9, TypeFacts DEF MapsAgree
<1>11. StateAgrees'
  <2>1. records[s].ended
    BY <1>1, <1>2 DEF WaitsFit
  <2>2. ASSUME NEW t \in byId, t # s
        PROVE  /\ records'[t] = records[t] /\ t \in Sessions
               /\ \A x \in waits : x.session = t => x \in waits'
    BY <1>1, <1>2, <1>7, <2>2, TypeFacts
  <2>3. Told(s)'
    BY <1>5, <1>7, <2>1 DEF Told
  <2>. QED
    BY <1>2, <2>2, <2>3 DEF StateAgrees, Told, StopWaits
<1>12. WaitsFit' /\ OneWait'
  <2>1. OneWait'
    BY <1>2 DEF OneWait
  <2>2. ASSUME NEW x \in waits'
        PROVE  /\ x \in waits /\ x.session \in Sessions /\ byKey' = byKey
               /\ records'[x.session].stopping = records[x.session].stopping
               /\ records'[x.session].proc = records[x.session].proc
               /\ records'[x.session].key = records[x.session].key
               /\ records'[x.session].ended = records[x.session].ended
    BY <1>2, <1>9, <2>2, TypeFacts
  <2>3. WaitsFit'
    BY <2>2 DEF WaitsFit, Live
  <2>. QED
    BY <2>1, <2>3
<1>13. NoOrphans'
  <2>1. ASSUME NEW p \in 1..Len(procs), procs'[p].state = "running", ~Closes(p)'
        PROVE  /\ records'[procs'[p].session].proc = p
               /\ byKey'[records'[procs'[p].session].key] = procs'[p].session
    <3>1. /\ procs'[p].session = procs[p].session /\ procs[p].session \in Sessions
          /\ records[procs[p].session].proc = p
          /\ byKey[records[procs[p].session].key] = procs[p].session
      BY <1>2, <2>1, RunsOn
    <3>. QED
      BY <1>2, <1>9, <3>1
  <2>. QED
    BY <1>3, <2>1 DEF NoOrphans, Running
<1>. QED
  BY <1>8, <1>10, <1>11, <1>12, <1>13

(* The session is still its key's, and nobody else's wait concerns it.     *)
LEMMA RestartIsLive ==
  ASSUME ManagerInv, NEW w \in waits, w.next = "restart"
  PROVE  /\ w.session \in Sessions /\ Live(w.session) /\ w.session \in byId
         /\ ~records[w.session].ended /\ records[w.session].proc = 0
         /\ \A v \in waits \ {w} : v.session = w.session => v.next = "nothing"
<1> USE DEF ManagerInv
<1>1. w.session \in Sessions /\ records[w.session].key \in Key
  BY TypeFacts
<1>2. Live(w.session) /\ records[w.session].proc = 0
  BY DEF WaitsFit
<1>3. w.session # 0
  BY <1>1, TypeFacts
<1>4. w.session \in byId
  BY <1>1, <1>2, <1>3 DEF MapsAgree, Live
<1>5. ~records[w.session].ended
  BY <1>2, <1>4 DEF MapsAgree, Live
<1>6. \A v \in waits \ {w} : v.session = w.session => v.next = "nothing"
  BY DEF OneWait
<1>. QED
  BY <1>1, <1>2, <1>4, <1>5, <1>6

LEMMA RestartStartsKeeps ==
  ASSUME ManagerInv, NEW w \in waits, RestartStarts(w)
  PROVE  ManagerInv'
<1> USE DEF ManagerInv
<1>1. PICK s \in Sessions : s = w.session
  BY TypeFacts
<1>2. /\ UNCHANGED <<open, attaching, byKey, byId>> /\ waits' = waits \ {w} /\ w.next = "restart"
      /\ procs' = Append(Killed({w.proc}), [session |-> s, state |-> "running"])
  BY <1>1 DEF RestartStarts
<1>3. /\ Live(s) /\ s \in byId /\ ~records[s].ended /\ records[s].proc = 0
      /\ \A v \in waits \ {w} : v.session = s => v.next = "nothing"
  BY <1>1, <1>2, RestartIsLive
<1>4. PICK new \in Nat : new = Len(procs) + 1
  BY TypeFacts
<1>5. PICK r : r = [records[s] EXCEPT !.proc = new, !.port = new, !.asked = TRUE,
                                      !.stopping = FALSE, !.state = "starting"]
  OBVIOUS
<1>6. records' = [records EXCEPT ![s] = r]
  BY <1>1, <1>4, <1>5 DEF RestartStarts, Started
<1>7. /\ procs' \in Seq(Proc) /\ Len(procs') = new /\ procs'[new].session = s
      /\ \A p \in 1..Len(procs) : procs'[p] = Killed({w.proc})[p]
  <2>1. [session |-> s, state |-> "running"] \in Proc
    BY DEF Proc, Sessions
  <2>. QED
    BY <1>2, <1>4, <2>1, KilledProcs, ElementAdded
<1>8. r \in Record' /\ r.key = records[s].key /\ r.ended = records[s].ended
      /\ r.proc = new /\ r.state = "starting"
  <2>1. records[s] \in Record /\ new \in 0..Len(procs') /\ 0..Len(procs) \subseteq 0..Len(procs')
    BY <1>4, <1>7, TypeFacts
  <2>. QED
    BY <1>5, <2>1 DEF Record
<1>9. /\ records' \in Seq(Record') /\ Len(records') = Len(records) /\ records'[s] = r
      /\ \A t \in Sessions : t # s => records'[t] = records[t]
  <2>1. Record \subseteq Record'
    <3>1. 0..Len(procs) \subseteq 0..Len(procs')
      BY <1>4, <1>7, TypeFacts
    <3>. QED
      BY <3>1 DEF Record
  <2>. QED
    BY <1>6, <1>8, <2>1, ElementSet DEF ManagerTypeOK, Sessions
<1>10. Record \subseteq Record' /\ Proc \subseteq Proc' /\ Wait \subseteq Wait' /\ Sessions' = Sessions
  BY <1>4, <1>7, <1>9, TypeFacts, MoreSessions DEF Sessions
<1>11. ManagerTypeOK'
  <2>1. procs' \in Seq(Proc')
    BY <1>7, <1>10, SeqMonotonic
  <2>2. waits' \subseteq Wait'
    BY <1>2, <1>10 DEF ManagerTypeOK
  <2>. QED
    BY <1>2, <1>9, <1>10, <2>1, <2>2 DEF ManagerTypeOK
<1>12. \A t \in Sessions : records'[t].key = records[t].key /\ records'[t].ended = records[t].ended
  BY <1>8, <1>9
<1>13. MapsAgree'
  BY <1>2, <1>12, TypeFacts DEF MapsAgree
<1>14. StateAgrees'
  <2>1. ASSUME NEW t \in byId', t # s PROVE Told(t)'
    <3>1. t \in Sessions /\ records'[t] = records[t] /\ Told(t)
      BY <1>2, <1>9, <2>1, TypeFacts DEF StateAgrees
    <3>2. StopWaits(t) => StopWaits(t)'
      BY <1>2 DEF StopWaits
    <3>. QED
      BY <3>1, <3>2 DEF Told
  <2>2. Told(s)'
    BY <1>3, <1>8, <1>9 DEF Told
  <2>. QED
    BY <2>1, <2>2 DEF StateAgrees
<1>15. WaitsFit' /\ OneWait'
  <2>1. \A v \in waits' : v \in waits /\ v.session \in Sessions /\ (v.next # "nothing" => v.session # s)
    BY <1>2, <1>3, TypeFacts
  <2>2. WaitsFit'
    BY <1>2, <1>9, <2>1 DEF WaitsFit, Live
  <2>. QED
    BY <2>1, <2>2 DEF OneWait
<1>16. NoOrphans'
  <2>1. ASSUME NEW p \in 1..Len(procs), procs'[p].state = "running", ~Closes(p)'
        PROVE  records'[procs'[p].session].proc = p
                 /\ byKey'[records'[procs'[p].session].key] = procs'[p].session
    <3>1. /\ procs'[p].session = procs[p].session /\ procs[p].session \in Sessions
          /\ records[procs[p].session].proc = p
          /\ byKey[records[procs[p].session].key] = procs[p].session
      BY <1>2, <1>7, <2>1, RunsOn
    <3>2. procs[p].session # s
      BY <1>3, <3>1, TypeFacts
    <3>. QED
      BY <1>2, <1>9, <3>1, <3>2
  <2>2. /\ records'[procs'[new].session].proc = new
        /\ byKey'[records'[procs'[new].session].key] = procs'[new].session
    BY <1>2, <1>3, <1>7, <1>8, <1>9 DEF Live
  <2>3. \A p \in 1..Len(procs') : p = new \/ p \in 1..Len(procs)
    BY <1>4, <1>7, TypeFacts
  <2>. QED
    BY <2>1, <2>2, <2>3 DEF NoOrphans, Running
<1>. QED
  BY <1>11, <1>13, <1>14, <1>15, <1>16

LEMMA RestartFailsKeeps ==
  ASSUME ManagerInv, NEW w \in waits, RestartFails(w)
  PROVE  ManagerInv'
<1> USE DEF ManagerInv
<1>1. PICK s \in Sessions : s = w.session
  BY TypeFacts
<1>2. /\ UNCHANGED <<open, attaching, records>> /\ waits' = waits \ {w} /\ w.next = "restart"
      /\ procs' = Killed({w.proc}) /\ byId' = byId \ {s}
      /\ byKey' = [byKey EXCEPT ![records[s].key] = 0]
  BY <1>1 DEF RestartFails
<1>3. Live(s) /\ s \in byId /\ records[s].proc = 0
  BY <1>1, <1>2, RestartIsLive
<1>4. procs' \in Seq(Proc) /\ Len(procs') = Len(procs)
  BY <1>2, KilledProcs
<1>5. /\ byKey' \in [Key -> 0..Len(records)]
      /\ \A k \in Key : byKey'[k] = IF k = records[s].key THEN 0 ELSE byKey[k]
  BY <1>2, TypeFacts DEF ManagerTypeOK
<1>6. \A k \in Key, t \in Sessions : t # s => (byKey'[k] = t <=> byKey[k] = t)
  BY <1>3, <1>5, TypeFacts DEF Live
<1>7. ManagerTypeOK'
  BY <1>2, <1>4, <1>5 DEF ManagerTypeOK, Record, Proc, Wait, Sessions
<1>8. MapsAgree'
  <2>1. ASSUME NEW k \in Key, byKey'[k] # 0 PROVE byKey'[k] \in byId' /\ records'[byKey'[k]].key = k
    BY <1>2, <1>3, <1>5, <2>1, TypeFacts DEF MapsAgree, Live
  <2>2. ASSUME NEW t \in byId' PROVE records'[t].ended <=> byKey'[records'[t].key] # t
    BY <1>2, <1>6, <2>2, TypeFacts DEF MapsAgree
  <2>. QED
    BY <2>1, <2>2 DEF MapsAgree
<1>9. StateAgrees'
  BY <1>1, <1>2, TypeFacts DEF StateAgrees, Told, StopWaits
<1>10. WaitsFit' /\ OneWait'
  <2>1. \A v \in waits' : v \in waits /\ (v.next # "nothing" => v.session # s)
    BY <1>1, <1>2, RestartIsLive
  <2>2. WaitsFit'
    BY <1>2, <1>6, <2>1, TypeFacts DEF WaitsFit, Live
  <2>. QED
    BY <2>1, <2>2 DEF OneWait
<1>11. NoOrphans'
  <2>1. ASSUME NEW p \in 1..Len(procs), procs'[p].state = "running", ~Closes(p)'
        PROVE  records'[procs'[p].session].proc = p
                 /\ byKey'[records'[procs'[p].session].key] = procs'[p].session
    <3>1. /\ procs'[p].session = procs[p].session /\ procs[p].session \in Sessions
          /\ records[procs[p].session].proc = p
          /\ byKey[records[procs[p].session].key] = procs[p].session
      BY <1>2, <2>1, RunsOn
    <3>2. procs[p].session # s
      BY <1>3, <3>1, TypeFacts
    <3>. QED
      BY <1>2, <1>6, <3>1, <3>2, TypeFacts
  <2>. QED
    BY <1>4, <2>1 DEF NoOrphans, Running
<1>. QED
  BY <1>7, <1>8, <1>9, <1>10, <1>11

-----------------------------------------------------------------------------
(* Sessions end.                                                           *)

(* Sessions that nobody stops or restarts end, and their servers are       *)
(* killed, or closed from now on.                                          *)
LEMMA GoneKeeps ==
  ASSUME ManagerInv, NEW gone \in SUBSET Sessions,
         \A v \in waits : v.session \in gone => v.next = "nothing",
         records' \in Seq(Record), Len(records') = Len(records),
         \A t \in Sessions \ gone : records'[t] = records[t],
         \A t \in gone : records'[t].key = records[t].key /\ records'[t].ended
                           /\ records'[t].state = "exited",
         Unkey(gone), Unname(gone), UNCHANGED <<open, attaching>>,
         waits \subseteq waits', waits' \subseteq Wait, \A v \in waits' \ waits : v.next = "nothing",
         procs' \in Seq(Proc), SameProcs,
         \A p \in 1..Len(procs) :
           procs'[p].state = "running" /\ procs[p].session \in gone
             /\ records[procs[p].session].proc = p => Closes(p)'
  PROVE  ManagerInv'
<1> USE DEF ManagerInv
<1>1. /\ byKey' \in [Key -> 0..Len(records)]
      /\ \A k \in Key : byKey'[k] = 0 \/ (byKey'[k] = byKey[k] /\ byKey[k] \notin gone)
      /\ \A k \in Key, t \in Sessions : byKey'[k] = t <=> byKey[k] = t /\ t \notin gone
  BY UnkeyedRest
<1>2. byId' \subseteq byId /\ \A t \in byId \ gone : t \in byId'
  BY DEF Unname
<1>3. ManagerTypeOK'
  BY <1>1, <1>2 DEF ManagerTypeOK, Record, Proc, Wait, Sessions, SameProcs
<1>4. \A t \in Sessions : records'[t].key = records[t].key /\ records[t].key \in Key
  BY TypeFacts
<1>5. MapsAgree'
  <2>1. ASSUME NEW k \in Key, byKey'[k] # 0
        PROVE  byKey'[k] \in byId' /\ records'[byKey'[k]].key = k
    BY <1>1, <1>2, <1>4, <2>1, TypeFacts DEF MapsAgree
  <2>2. ASSUME NEW t \in byId', t \notin gone PROVE records'[t].ended <=> byKey'[records'[t].key] # t
    BY <1>1, <1>2, <1>4, <2>2, TypeFacts DEF MapsAgree
  <2>3. ASSUME NEW t \in byId', t \in gone PROVE records'[t].ended <=> byKey'[records'[t].key] # t
    BY <1>1, <1>2, <1>4, <2>3, TypeFacts
  <2>. QED
    BY <2>1, <2>2, <2>3 DEF MapsAgree
<1>6. StateAgrees'
  BY <1>2, TypeFacts DEF StateAgrees, Told, StopWaits
<1>7. WaitsFit'
  <2>1. ASSUME NEW v \in waits', v.next # "nothing" PROVE v \in waits /\ v.session \in Sessions \ gone
    BY <2>1, TypeFacts
  <2>. QED
    BY <1>1, <1>4, <2>1 DEF WaitsFit, Live
<1>8. OneWait'
  BY DEF OneWait
<1>9. NoOrphans'
  <2>1. ASSUME NEW p \in 1..Len(procs), procs'[p].state = "running", ~Closes(p)'
        PROVE  records'[procs'[p].session].proc = p
                 /\ byKey'[records'[procs'[p].session].key] = procs'[p].session
    <3>1. procs'[p].session = procs[p].session /\ procs[p].session \in Sessions /\ ~Closes(p)
          /\ procs[p].state = "running"
      BY <2>1, TypeFacts DEF Closes, SameProcs
    <3>2. records[procs[p].session].proc = p /\ byKey[records[procs[p].session].key] = procs[p].session
      BY <3>1 DEF NoOrphans, Running
    <3>3. procs[p].session \notin gone
      BY <2>1, <3>2
    <3>. QED
      BY <1>1, <1>4, <3>1, <3>2, <3>3
  <2>. QED
    BY <2>1 DEF NoOrphans, Running, SameProcs
<1>. QED
  BY <1>3, <1>5, <1>6, <1>7, <1>8, <1>9

(* One session that ends.                                                  *)
LEMMA EndedKeeps ==
  ASSUME ManagerInv, NEW s \in Sessions, NEW r0 \in Record, Ended(s, r0),
         r0.key = records[s].key, \A v \in waits : v.session = s => v.next = "nothing",
         procs' \in Seq(Proc), SameProcs, UNCHANGED <<open, attaching>>
  PROVE  ManagerInv'
<1> USE DEF ManagerInv
<1>1. PICK r : r = Retired(MarkedExited(r0))
  OBVIOUS
<1>2. r \in Record /\ r.key = records[s].key /\ r.ended = TRUE /\ r.state = "exited"
  BY <1>1 DEF Retired, MarkedExited, Record
<1>3. /\ records' \in Seq(Record) /\ Len(records') = Len(records) /\ records'[s] = r
      /\ \A t \in Sessions : t # s => records'[t] = records[t]
  <2>1. records' = [records EXCEPT ![s] = r]
    BY <1>1 DEF Ended
  <2>. QED
    BY <1>2, <2>1, ElementSet DEF ManagerTypeOK, Sessions
<1>4. PICK w : w = [session |-> s, proc |-> records[s].proc, next |-> "nothing"]
  OBVIOUS
<1>5. w \in Wait /\ w.proc = records[s].proc /\ w.next = "nothing"
  BY <1>4, TypeFacts DEF Wait, Record
<1>6. waits' = waits \cup {w} \/ (waits' = waits /\ records[s].proc = 0)
  BY <1>4 DEF Ended, Closing
<1>7. waits \subseteq waits' /\ waits' \subseteq Wait /\ \A v \in waits' \ waits : v.next = "nothing"
  BY <1>5, <1>6 DEF ManagerTypeOK
<1>8. \A p \in 1..Len(procs) : records[s].proc = p => Closes(p)'
  BY <1>5, <1>6, TypeFacts DEF Closes
<1>9. Unkey({s}) /\ Unname({s})
  BY DEF Ended
<1>. QED
  BY <1>2, <1>3, <1>7, <1>8, <1>9, GoneKeeps, TypeFacts

LEMMA InitializeFailsKeeps ==
  ASSUME ~Overlap, ManagerInv, NEW s \in Sessions, InitializeFails(s)
  PROVE  ManagerInv'
<1> USE DEF ManagerInv
<1>1. procs' \in Seq(Proc) /\ SameProcs /\ UNCHANGED <<open, attaching>>
  BY DEF InitializeFails, SameProcs, ManagerTypeOK
<1>2. PICK r : r = [records[s] EXCEPT !.asked = FALSE]
  OBVIOUS
<1>3. r \in Record /\ r.key = records[s].key
  BY <1>2, TypeFacts DEF Record
<1>4. Ended(s, r) /\ \A v \in waits : v.session = s => v.next = "nothing"
  BY <1>2 DEF InitializeFails, Undisturbed
<1>. QED
  BY <1>1, <1>3, <1>4, EndedKeeps

LEMMA ExitReportedKeeps ==
  ASSUME ManagerInv, NEW p \in 1..Len(procs), ExitReported(p)
  PROVE  ManagerInv'
<1> USE DEF ManagerInv
<1>1. PICK s \in Sessions : s = procs[p].session
  BY TypeFacts
<1>2. PICK e : e = [procs[p] EXCEPT !.state = "reported"]
  OBVIOUS
<1>3. e \in Proc /\ e.session = s /\ e.state = "reported"
  BY <1>1, <1>2, TypeFacts DEF Proc
<1>4. procs' = [procs EXCEPT ![p] = e]
  BY <1>2 DEF ExitReported
<1>5. procs' \in Seq(Proc) /\ Len(procs') = Len(procs) /\ SameProcs
  <2>1. /\ procs' \in Seq(Proc) /\ Len(procs') = Len(procs) /\ procs'[p] = e
        /\ \A q \in 1..Len(procs) : q # p => procs'[q] = procs[q]
    BY <1>3, <1>4, ElementSet DEF ManagerTypeOK
  <2>. QED
    BY <1>1, <1>3, <2>1 DEF SameProcs
<1>6. PICK r : r = [records[s] EXCEPT !.port = 0]
  OBVIOUS
<1>7. /\ r \in Record /\ r.key = records[s].key /\ r.ended = records[s].ended
      /\ r.proc = records[s].proc /\ r.stopping = records[s].stopping /\ r.state = records[s].state
  <2>1. records[s] \in Record /\ 0 \in 0..Len(procs)
    BY TypeFacts
  <2>. QED
    BY <1>6, <2>1 DEF Record
<1>8. UNCHANGED <<open, attaching>>
  BY DEF ExitReported
<1>9. CASE /\ UNCHANGED <<byKey, byId, waits>>
           /\ records' = records \/ (records' = [records EXCEPT ![s] = r] /\ r.stopping)
  <2>1. /\ records' \in Seq(Record) /\ Len(records') = Len(records)
        /\ \A t \in Sessions : SameRecord(t)
        /\ \A t \in byId' : SameState(t) \/ Told(t)'
    <3>1. CASE records' = records
      BY <3>1 DEF SameRecord, SameState, ManagerTypeOK
    <3>2. CASE records' = [records EXCEPT ![s] = r] /\ r.stopping
      <4>1. /\ records' \in Seq(Record) /\ Len(records') = Len(records) /\ records'[s] = r
            /\ \A t \in Sessions : t # s => records'[t] = records[t]
        BY <1>7, <3>2, ElementSet DEF ManagerTypeOK, Sessions
      <4>2. s \in byId => Told(s)'
        BY <1>7, <1>9, <3>2, <4>1 DEF StateAgrees, Told, StopWaits
      <4>. QED
        BY <1>7, <1>9, <4>1, <4>2, TypeFacts DEF SameRecord, SameState
    <3>. QED
      BY <1>9, <3>1, <3>2
  <2>2. ManagerTypeOK'
    BY <1>5, <1>8, <1>9, <2>1 DEF ManagerTypeOK, Record, Proc, Wait, Sessions
  <2>3. Quiet
    BY <1>5, <1>9, <2>1 DEF Quiet
  <2>. QED
    BY <2>2, <2>3, QuietKeeps
<1>10. CASE Ended(s, r) /\ ~r.stopping
  <2>1. \A v \in waits : v.session = s => v.next = "nothing"
    BY <1>7, <1>10 DEF WaitsFit
  <2>. QED
    BY <1>5, <1>7, <1>8, <1>10, <2>1, EndedKeeps
<1>. QED
  BY <1>1, <1>6, <1>9, <1>10 DEF ExitReported

LEMMA ContainerGoneKeeps ==
  ASSUME ~Overlap, ManagerInv, NEW ks \in SUBSET Key, ContainerGone(ks)
  PROVE  ManagerInv'
<1> USE DEF ManagerInv
<1>1. PICK gone \in SUBSET Sessions :
        gone = {s \in Sessions : records[s].key \in ks /\ byKey[records[s].key] = s}
  OBVIOUS
<1>2. /\ \A s \in gone : Undisturbed(s)
      /\ records' = [s \in Sessions |->
                       IF s \in gone THEN Retired(MarkedExited(records[s])) ELSE records[s]]
      /\ Unkey(gone) /\ Unname(gone) /\ procs' = Killed({records[s].proc : s \in gone})
      /\ UNCHANGED <<open, attaching, waits>>
  BY <1>1 DEF ContainerGone
<1>3. \A v \in waits : v.session \in gone => v.next = "nothing"
  BY <1>2 DEF Undisturbed
<1>4. /\ records' \in [Sessions -> Record]
      /\ \A t \in Sessions \ gone : records'[t] = records[t]
      /\ \A t \in gone : records'[t].key = records[t].key /\ records'[t].ended = TRUE
                           /\ records'[t].state = "exited"
  <2>1. ASSUME NEW t \in Sessions
        PROVE  LET r == Retired(MarkedExited(records[t])) IN
               r \in Record /\ r.key = records[t].key /\ r.ended = TRUE /\ r.state = "exited"
    <3>1. records[t] \in Record
      BY TypeFacts
    <3>. QED
      BY <3>1 DEF Retired, MarkedExited, Record
  <2>2. \A t \in Sessions : records[t] \in Record
    BY TypeFacts
  <2>. QED
    BY <1>2, <2>1, <2>2
<1>5. records' \in Seq(Record) /\ Len(records') = Len(records)
  BY <1>4, MapIsSeq, TypeFacts
<1>6. procs' \in Seq(Proc) /\ SameProcs
  BY <1>2, KilledProcs DEF SameProcs
<1>7. \A p \in 1..Len(procs) :
        procs'[p].state = "running" /\ procs[p].session \in gone => records[procs[p].session].proc # p
  BY <1>2, KilledProcs
<1>8. waits \subseteq waits' /\ waits' \subseteq Wait /\ \A v \in waits' \ waits : v.next = "nothing"
  BY <1>2 DEF ManagerTypeOK
<1>9. \A t \in gone : records'[t].ended
  BY <1>4
<1>. QED
  BY <1>2, <1>3, <1>4, <1>5, <1>6, <1>7, <1>8, <1>9, GoneKeeps

-----------------------------------------------------------------------------
(* Sessions begin.                                                         *)

(* A process is started for a session that had none, or is new, and that   *)
(* becomes its key's; nobody waits for that session.                       *)
LEMMA SpawnKeeps ==
  ASSUME ManagerInv, NEW s \in Nat \ {0}, NEW r \in Record', NEW n \in Nat,
         n = Len(procs) + 1, s \in Sessions \/ s = Len(records) + 1,
         r.key \in Key, byKey[r.key] = 0, r.ended = FALSE, r.proc = n, r.state = "starting",
         s \in Sessions => r.key = records[s].key,
         records' \in Seq(Record'), Sessions' = Sessions \cup {s}, records'[s] = r,
         Len(records) <= Len(records'),
         \A t \in Sessions : t # s => records'[t] = records[t],
         procs' = Append(procs, [session |-> s, state |-> "running"]),
         byKey' = [byKey EXCEPT ![r.key] = s], byId' = byId \cup {s},
         \A v \in waits : v.session = s => v.next = "nothing",
         waits' = waits, open' = open, attaching' \subseteq Peer \X Key
  PROVE  ManagerInv'
<1> USE DEF ManagerInv
<1>1. /\ Len(records) \in Nat /\ Len(procs) \in Nat /\ Len(records') \in Nat
      /\ Sessions = 1..Len(records) /\ Sessions' = 1..Len(records')
  BY TypeFacts DEF Sessions
<1>2. /\ Len(procs') = n /\ procs'[n].session = s
      /\ \A p \in 1..Len(procs) : procs'[p] = procs[p]
  BY <1>1 DEF ManagerTypeOK
<1>3. /\ Record \subseteq Record' /\ Proc \subseteq Proc' /\ Wait \subseteq Wait'
      /\ Sessions \subseteq Sessions'
  BY <1>1, <1>2, MoreSessions
<1>4. procs' \in Seq(Proc')
  <2>1. [session |-> s, state |-> "running"] \in Proc'
    BY <1>1 DEF Proc
  <2>. QED
    BY <1>3, <2>1, ElementAdded DEF ManagerTypeOK
<1>5. /\ byKey' \in [Key -> 0..Len(records')]
      /\ \A k \in Key : byKey'[k] = IF k = r.key THEN s ELSE byKey[k]
  <2>1. s \in 0..Len(records') /\ \A k \in Key : byKey[k] \in 0..Len(records')
    BY <1>1, TypeFacts
  <2>2. byKey \in [Key -> 0..Len(records)]
    BY DEF ManagerTypeOK
  <2>. QED
    BY <2>1, <2>2
<1>6. ManagerTypeOK'
  BY <1>3, <1>4, <1>5 DEF ManagerTypeOK
<1>7. \A k \in Key, t \in Sessions : t # s => (byKey'[k] = t <=> byKey[k] = t)
  BY <1>1, <1>5
<1>8. \A t \in Sessions : records'[t].key = records[t].key /\ records[t].key \in Key
  BY TypeFacts
<1>9. MapsAgree'
  <2>1. ASSUME NEW k \in Key, byKey'[k] # 0
        PROVE  byKey'[k] \in byId' /\ records'[byKey'[k]].key = k
    <3>1. CASE k = r.key
      BY <1>5, <3>1
    <3>2. CASE k # r.key
      <4>1. byKey'[k] = byKey[k] /\ byKey[k] \in byId /\ records[byKey[k]].key = k
        BY <1>5, <2>1, <3>2 DEF MapsAgree
      <4>2. byKey[k] \in Sessions
        BY <4>1, TypeFacts
      <4>. QED
        BY <1>8, <4>1, <4>2
    <3>. QED
      BY <3>1, <3>2
  <2>2. ASSUME NEW t \in byId', t # s PROVE records'[t].ended <=> byKey'[records'[t].key] # t
    <3>1. t \in byId /\ t \in Sessions
      BY <2>2, TypeFacts
    <3>2. records[t].ended <=> byKey[records[t].key] # t
      BY <3>1 DEF MapsAgree
    <3>. QED
      BY <1>7, <1>8, <2>2, <3>1, <3>2
  <2>3. ~records'[s].ended /\ byKey'[records'[s].key] = s
    BY <1>5
  <2>. QED
    BY <2>1, <2>2, <2>3 DEF MapsAgree
<1>10. StateAgrees'
  <2>1. ASSUME NEW t \in byId', t # s PROVE Told(t)'
    BY <2>1, TypeFacts DEF StateAgrees, Told, StopWaits
  <2>2. Told(s)'
    BY DEF Told
  <2>. QED
    BY <2>1, <2>2 DEF StateAgrees
<1>11. WaitsFit' /\ OneWait'
  <2>1. \A v \in waits : v.session \in Sessions /\ (v.next # "nothing" => v.session # s)
    BY TypeFacts
  <2>2. WaitsFit'
    BY <1>7, <1>8, <2>1 DEF WaitsFit, Live
  <2>. QED
    BY <2>2 DEF OneWait
<1>12. NoOrphans'
  <2>1. ASSUME NEW p \in 1..Len(procs), procs'[p].state = "running", ~Closes(p)'
        PROVE  records'[procs'[p].session].proc = p
                 /\ byKey'[records'[procs'[p].session].key] = procs'[p].session
    <3>1. /\ procs'[p].session = procs[p].session /\ procs[p].session \in Sessions
          /\ records[procs[p].session].proc = p
          /\ byKey[records[procs[p].session].key] = procs[p].session
      BY <1>2, <2>1, TypeFacts DEF NoOrphans, Running, Closes
    <3>2. procs[p].session # s
      BY <1>1, <3>1
    <3>. QED
      BY <1>7, <1>8, <3>1, <3>2
  <2>2. /\ records'[procs'[n].session].proc = n
        /\ byKey'[records'[procs'[n].session].key] = procs'[n].session
    BY <1>2, <1>5
  <2>3. \A p \in 1..Len(procs') : p = n \/ p \in 1..Len(procs)
    BY <1>1, <1>2
  <2>. QED
    BY <2>1, <2>2, <2>3 DEF NoOrphans, Running
<1>. QED
  BY <1>6, <1>9, <1>10, <1>11, <1>12

LEMMA AttachMakesKeeps ==
  ASSUME ManagerInv, NEW c \in Peer, NEW k \in Key, AttachMakes(c, k)
  PROVE  ManagerInv'
<1> USE DEF ManagerInv
<1>1. PICK s \in Nat \ {0}, n \in Nat \ {0} : s = Len(records) + 1 /\ n = Len(procs) + 1
  BY TypeFacts
<1>2. PICK r : r = Started([key |-> k, ended |-> FALSE, proc |-> 0, state |-> "starting",
                            port |-> 0, asked |-> FALSE, stopping |-> FALSE, peers |-> {c},
                            idle |-> FALSE])
  OBVIOUS
<1>3. /\ records' = Append(records, r) /\ byKey' = [byKey EXCEPT ![k] = s] /\ byId' = byId \cup {s}
      /\ procs' = Append(procs, [session |-> s, state |-> "running"])
      /\ byKey[k] = 0 /\ UNCHANGED <<open, waits>> /\ attaching' \subseteq Peer \X Key
  BY <1>1, <1>2 DEF AttachMakes, Spawn, ManagerTypeOK
<1>4. r = [key |-> k, ended |-> FALSE, proc |-> n, state |-> "starting",
           port |-> n, asked |-> TRUE, stopping |-> FALSE, peers |-> {c}, idle |-> FALSE]
  BY <1>1, <1>2 DEF Started
<1>5. Len(procs') = n /\ Len(procs) \in Nat /\ Len(records) \in Nat
  BY <1>1, <1>3, TypeFacts DEF ManagerTypeOK
<1>6. r \in Record' /\ r.key = k /\ r.ended = FALSE /\ r.proc = n /\ r.state = "starting"
  <2>1. n \in 0..Len(procs')
    BY <1>5
  <2>. QED
    BY <1>4, <2>1 DEF Record
<1>7. Record \subseteq Record'
  <2>1. 0..Len(procs) \subseteq 0..Len(procs')
    BY <1>1, <1>5
  <2>. QED
    BY <2>1 DEF Record
<1>8. /\ records' \in Seq(Record') /\ Len(records') = s /\ records'[s] = r
      /\ \A t \in Sessions : records'[t] = records[t]
  BY <1>1, <1>3, <1>6, <1>7, ElementAdded DEF ManagerTypeOK, Sessions
<1>9. Sessions' = Sessions \cup {s} /\ s \notin Sessions /\ Len(records) <= Len(records')
  BY <1>1, <1>5, <1>8 DEF Sessions
<1>10. \A v \in waits : v.session # s
  BY <1>9, TypeFacts
<1>. QED
  BY <1>1, <1>3, <1>6, <1>8, <1>9, <1>10, SpawnKeeps

(* A session that ended starts again, under its own number.                *)
LEMMA ReviveKeeps ==
  ASSUME ~Overlap, ManagerInv, NEW c \in Peer, NEW s \in Sessions, Revive(c, s)
  PROVE  ManagerInv'
<1> USE DEF ManagerInv
<1>1. PICK n \in Nat \ {0} : n = Len(procs) + 1
  BY TypeFacts
<1>2. PICK r : r = Started([records[s] EXCEPT !.ended = FALSE])
  OBVIOUS
<1>3. /\ records' = [records EXCEPT ![s] = r] /\ byKey' = [byKey EXCEPT ![records[s].key] = s]
      /\ procs' = Append(procs, [session |-> s, state |-> "running"])
      /\ byKey[records[s].key] = 0 /\ UNCHANGED <<open, attaching, byId, waits>>
      /\ s \in byId
  BY <1>2 DEF Revive, Asks, Spawn
<1>4. r = [records[s] EXCEPT !.ended = FALSE, !.proc = n, !.port = n, !.asked = TRUE,
                             !.stopping = FALSE, !.state = "starting"]
  BY <1>1, <1>2 DEF Started
<1>5. Len(procs') = n /\ Len(procs) \in Nat /\ Len(records) \in Nat
  BY <1>1, <1>3, TypeFacts DEF ManagerTypeOK
<1>6. r \in Record' /\ r.key = records[s].key /\ r.ended = FALSE /\ r.proc = n
      /\ r.state = "starting"
  <2>1. records[s] \in Record /\ n \in 0..Len(procs') /\ 0..Len(procs) \subseteq 0..Len(procs')
    BY <1>1, <1>5, TypeFacts
  <2>2. records[s] \in Record'
    BY <2>1 DEF Record
  <2>. QED
    BY <1>4, <2>1, <2>2 DEF Record
<1>7. Record \subseteq Record'
  <2>1. 0..Len(procs) \subseteq 0..Len(procs')
    BY <1>1, <1>5
  <2>. QED
    BY <2>1 DEF Record
<1>8. /\ records' \in Seq(Record') /\ Len(records') = Len(records) /\ records'[s] = r
      /\ \A t \in Sessions : t # s => records'[t] = records[t]
  BY <1>3, <1>6, <1>7, ElementSet DEF ManagerTypeOK, Sessions
<1>9. Sessions' = Sessions \cup {s} /\ byId' = byId \cup {s} /\ s \in Nat \ {0}
      /\ Len(records) <= Len(records') /\ records[s].key \in Key
  BY <1>3, <1>5, <1>8, TypeFacts DEF Sessions
<1>10. \A v \in waits : v.session = s => v.next = "nothing"
  BY DEF Revive, Undisturbed
<1>11. attaching' \subseteq Peer \X Key
  BY <1>3 DEF ManagerTypeOK
<1>. QED
  BY <1>1, <1>3, <1>6, <1>8, <1>9, <1>10, <1>11, SpawnKeeps

(* It cannot be started: nobody can name it any more.                      *)
LEMMA ReviveFailsKeeps ==
  ASSUME ~Overlap, ManagerInv, NEW c \in Peer, NEW s \in Sessions, ReviveFails(c, s)
  PROVE  ManagerInv'
<1> USE DEF ManagerInv
<1>1. PICK r : r = [records[s] EXCEPT !.ended = FALSE]
  OBVIOUS
<1>2. /\ r \in Record /\ r.key = records[s].key /\ r.ended = FALSE /\ r.proc = records[s].proc
      /\ r.stopping = records[s].stopping /\ r.state = records[s].state
  BY <1>1, TypeFacts DEF Record
<1>3. /\ records' = [records EXCEPT ![s] = r] /\ byKey[records[s].key] = 0 /\ byId' = byId \ {s}
      /\ UNCHANGED <<open, attaching, byKey, procs, waits>>
  BY <1>1 DEF ReviveFails
<1>4. /\ records' \in Seq(Record) /\ Len(records') = Len(records) /\ records'[s] = r
      /\ \A t \in Sessions : t # s => records'[t] = records[t]
  BY <1>2, <1>3, ElementSet DEF ManagerTypeOK, Sessions
<1>5. ManagerTypeOK'
  BY <1>3, <1>4 DEF ManagerTypeOK, Record, Proc, Wait, Sessions
<1>6. \A t \in Sessions :
        /\ records'[t].key = records[t].key /\ records'[t].proc = records[t].proc
        /\ records'[t].stopping = records[t].stopping
  BY <1>2, <1>4
<1>7. s # 0 /\ \A t \in byId' : t \in byId /\ t \in Sessions /\ t # s /\ records'[t] = records[t]
  BY <1>3, <1>4, TypeFacts
<1>8. MapsAgree'
  <2>1. ASSUME NEW k \in Key, byKey[k] # 0 PROVE byKey[k] \in byId' /\ records'[byKey[k]].key = k
    <3>1. byKey[k] \in byId /\ records[byKey[k]].key = k
      BY <2>1 DEF MapsAgree
    <3>2. byKey[k] # s
      BY <1>3, <2>1, <3>1
    <3>. QED
      BY <1>3, <1>7, <3>1, <3>2
  <2>. QED
    BY <1>3, <1>7, <2>1 DEF MapsAgree
<1>9. StateAgrees'
  BY <1>3, <1>7 DEF StateAgrees, Told, StopWaits
<1>10. WaitsFit' /\ OneWait'
  <2>1. \A v \in waits : v.session \in Sessions /\ (v.next # "nothing" => v.session # s)
    BY TypeFacts DEF ReviveFails, Undisturbed
  <2>2. WaitsFit'
    BY <1>3, <1>4, <1>6, <2>1 DEF WaitsFit, Live
  <2>. QED
    BY <1>3, <2>2 DEF OneWait
<1>11. NoOrphans'
  BY <1>3, <1>6, TypeFacts DEF NoOrphans, Running, Closes
<1>. QED
  BY <1>5, <1>8, <1>9, <1>10, <1>11

-----------------------------------------------------------------------------
(* The theorems.                                                           *)

LEMMA ManagerInvKept ==
  ASSUME ~Overlap, ~LateAnswer, ManagerInv, [ManagerNext]_managerVars
  PROVE  ManagerInv'
<1>1. ASSUME NEW c \in Peer, PageAsks(c) PROVE ManagerInv'
  BY <1>1, PagesKeep, AttachMakesKeeps, ReviveKeeps, ReviveFailsKeeps, StopsKeep DEF PageAsks
<1>2. ASSUME NEW s \in Sessions, Stop(s) \/ IdleFires(s) PROVE ManagerInv'
  BY <1>2, StopsKeep
<1>3. ASSUME NEW w \in waits, Waited(w) PROVE ManagerInv'
  BY <1>3, ClosedKeeps, StopEndsKeeps, RestartStartsKeeps, RestartFailsKeeps DEF Waited
<1>4. CASE ServerDoes
  BY <1>4, InitializedKeeps, InitializeFailsKeeps, ExitsKeeps, ExitReportedKeeps DEF ServerDoes
<1>5. ASSUME NEW ks \in SUBSET Key, ContainerGone(ks) PROVE ManagerInv'
  BY <1>5, ContainerGoneKeeps
<1>6. CASE UNCHANGED managerVars
  <2>1. UNCHANGED <<records, byKey, byId, procs, waits>> /\ open' \subseteq Peer
        /\ attaching' \subseteq Peer \X Key
    BY <1>6 DEF managerVars, ManagerInv, ManagerTypeOK
  <2>. QED
    BY <2>1, NothingKeeps
<1>. QED
  BY <1>1, <1>2, <1>3, <1>4, <1>5, <1>6 DEF ManagerNext

(* The types, the two maps, the records and what waits fit together, and   *)
(* no server is left behind, when nothing overlaps a restart or a stop of  *)
(* its session.                                                            *)
THEOREM ManagerInvariant ==
  ASSUME ~Overlap, ~LateAnswer
  PROVE  ManagerSpec => []ManagerInv
<1>1. ManagerInv /\ [ManagerNext]_managerVars => ManagerInv'
  BY ManagerInvKept
<1>. QED
  BY <1>1, ManagerInvInit, PTL DEF ManagerSpec

(* A server that runs is the process of its key's live session, or is      *)
(* being closed: restart, stop, idle timer, a container that is gone and   *)
(* the server's own exit leave none behind.                                *)
THEOREM ManagerLeavesNoOrphans ==
  ASSUME ~Overlap, ~LateAnswer
  PROVE  ManagerSpec => []NoOrphans
<1>1. ManagerInv => NoOrphans
  BY DEF ManagerInv
<1>. QED
  BY <1>1, ManagerInvariant, PTL

(* #byKey, #byId, the records and what pages were told fit together.       *)
THEOREM ManagerRecordsAgree ==
  ASSUME ~Overlap, ~LateAnswer
  PROVE  ManagerSpec => []RecordsAgree
<1>1. ManagerInv => RecordsAgree
  BY DEF ManagerInv, RecordsAgree
<1>. QED
  BY <1>1, ManagerInvariant, PTL

(* "One per (environment, language, root, options)": two servers of a key  *)
(* run at once only while one of them is being closed.                     *)
THEOREM ManagerRunsOneServer ==
  ASSUME ~Overlap, ~LateAnswer
  PROVE  ManagerSpec => []OneServer
<1>1. ManagerInv => OneServer
  <2> SUFFICES ASSUME ManagerInv, NEW p \in Running, NEW q \in Running,
                      records[procs[p].session].key = records[procs[q].session].key,
                      ~Closes(p), ~Closes(q)
               PROVE  p = q
    BY DEF OneServer
  <2>1. /\ records[procs[p].session].proc = p
        /\ byKey[records[procs[p].session].key] = procs[p].session
        /\ records[procs[q].session].proc = q
        /\ byKey[records[procs[q].session].key] = procs[q].session
    BY DEF ManagerInv, NoOrphans
  <2>. QED
    BY <2>1
<1>. QED
  BY <1>1, ManagerInvariant, PTL

(* A session that is no longer known had no pages left, unless a start of  *)
(* its server has failed: detach, stop, end and a container that is gone   *)
(* keep the names their pages still use.                                   *)
THEOREM ManagerKnowsNamed ==
  ASSUME ~Overlap, ~LateAnswer
  PROVE  ManagerSpec => KnownWhileNamed
<1>1. ASSUME ManagerInv, [ManagerNext]_managerVars, NEW s \in byId, s \notin byId'
      PROVE  \/ records'[s].peers = {}
             \/ \E w \in waits : w \notin waits' /\ w.session = s /\ w.next = "restart"
             \/ records[s].ended /\ ~records'[s].ended
  <2>0. s \in Sessions /\ records \in Seq(Record) /\ records[s] \in Record
    BY <1>1, TypeFacts DEF ManagerInv, ManagerTypeOK
  <2>1. ASSUME NEW c \in Peer, NEW ss, Detach(c, ss) PROVE records'[s].peers = {}
    <3>1. s \in ss /\ records[s].peers \subseteq {c} /\ records'[s] = Detached(c, ss)[s]
      BY <1>1, <2>1 DEF Detach
    <3>2. records[s].peers # {} => c \in records[s].peers
      BY <3>1
    <3>. QED
      BY <2>0, <3>1, <3>2 DEF Detached, Record
  <2>2. ASSUME NEW gone, Unname(gone), records'[s].peers = records[s].peers
        PROVE  records'[s].peers = {}
    BY <1>1, <2>2 DEF Unname
  <2>3. ASSUME NEW c \in Peer, PageAsks(c)
        PROVE  records'[s].peers = {} \/ (records[s].ended /\ ~records'[s].ended)
    <3>1. CASE (\E t \in Sessions : LspDetach(c, t)) \/ Disconnect(c)
      BY <2>1, <3>1 DEF LspDetach, Disconnect
    <3>2. ASSUME NEW t \in Sessions, ReviveFails(c, t)
          PROVE  records[s].ended /\ ~records'[s].ended
      <4>1. t = s /\ records[s].ended /\ records' = [records EXCEPT ![s].ended = FALSE]
        BY <1>1, <3>2 DEF ReviveFails
      <4>2. records'[s].ended = FALSE
        BY <2>0, <4>1 DEF Record, Sessions
      <4>. QED
        BY <4>1, <4>2
    <3>3. ASSUME NEW k \in Key, Attach(c, k) \/ AttachRefused(c, k) \/ AttachReuses(c, k)
                                  \/ AttachMakes(c, k)
          PROVE  FALSE
      BY <1>1, <3>3 DEF Attach, AttachRefused, AttachReuses, AttachMakes
    <3>4. ASSUME NEW t \in Sessions, Revive(c, t) \/ Restart(c, t) PROVE FALSE
      BY <1>1, <3>4 DEF Revive, Restart
    <3>5. CASE Reconnect(c)
      BY <1>1, <3>5 DEF Reconnect
    <3>. QED
      BY <2>3, <3>1, <3>2, <3>3, <3>4, <3>5 DEF PageAsks
  <2>4. ASSUME NEW t \in Sessions, Stop(t) \/ IdleFires(t) PROVE records'[s].peers = {}
    <3>1. Unname({t}) \/ byId' = byId
      BY <2>4 DEF Stop, IdleFires
    <3>2. records'[s].peers = records[s].peers
      <4>1. PICK r : /\ records' = [records EXCEPT ![t] = r]
                     /\ r \in {[records[t] EXCEPT !.idle = FALSE], Stopping(Retired(records[t])),
                               [Stopping(Retired(records[t])) EXCEPT !.idle = FALSE]}
        BY <2>4 DEF Stop, IdleFires
      <4>2. records[t] \in Record
        BY <1>1, <2>4, TypeFacts DEF ManagerInv
      <4>3. r.peers = records[t].peers
        BY <4>1, <4>2 DEF Stopping, Retired, Record
      <4>4. records'[s] = records[s] \/ (s = t /\ records'[s] = r)
        BY <2>0, <4>1 DEF Sessions
      <4>. QED
        BY <4>3, <4>4
    <3>. QED
      BY <1>1, <2>2, <3>1, <3>2
  <2>5. ASSUME NEW w \in waits, Waited(w)
        PROVE  w \notin waits' /\ w.session = s /\ w.next = "restart"
    <3>1. CASE RestartFails(w)
      BY <1>1, <3>1 DEF RestartFails
    <3>2. CASE Closed(w) \/ StopEnds(w) \/ RestartStarts(w)
      BY <1>1, <3>2 DEF Closed, StopEnds, RestartStarts
    <3>. QED
      BY <2>5, <3>1, <3>2 DEF Waited
  <2>6. ASSUME NEW t, NEW r, Ended(t, r), r.peers = records[t].peers, r \in Record
        PROVE  records'[s].peers = {}
    <3>1. records'[s].peers = records[s].peers
      BY <2>0, <2>6 DEF Ended, Retired, MarkedExited, Record, Sessions
    <3>. QED
      BY <2>2, <2>6, <3>1 DEF Ended
  <2>7. CASE ServerDoes
    <3>1. ASSUME NEW t \in Sessions, InitializeFails(t) PROVE records'[s].peers = {}
      <4>1. PICK r : r = [records[t] EXCEPT !.asked = FALSE]
        OBVIOUS
      <4>2. r \in Record /\ r.peers = records[t].peers /\ Ended(t, r)
        BY <1>1, <3>1, <4>1, TypeFacts DEF InitializeFails, Record, ManagerInv
      <4>. QED
        BY <2>6, <4>2
    <3>2. ASSUME NEW p \in 1..Len(procs), ExitReported(p) PROVE records'[s].peers = {}
      <4>1. PICK t : t = procs[p].session
        OBVIOUS
      <4>2. t \in Sessions /\ records[t] \in Record /\ 0 \in 0..Len(procs)
        BY <1>1, <4>1, TypeFacts DEF ManagerInv
      <4>3. PICK r : r = [records[t] EXCEPT !.port = 0]
        OBVIOUS
      <4>4. r \in Record /\ r.peers = records[t].peers
        BY <4>2, <4>3 DEF Record
      <4>5. Ended(t, r)
        BY <1>1, <3>2, <4>1, <4>3 DEF ExitReported
      <4>. QED
        BY <2>6, <4>4, <4>5
    <3>3. CASE (\E t \in Sessions : Initialized(t)) \/ (\E p \in 1..Len(procs) : Exits(p))
      BY <1>1, <3>3 DEF Initialized, Exits
    <3>. QED
      BY <2>7, <3>1, <3>2, <3>3 DEF ServerDoes
  <2>8. ASSUME NEW ks \in SUBSET Key, ContainerGone(ks) PROVE records'[s].peers = {}
    <3>1. PICK gone : /\ Unname(gone)
                      /\ records' = [t \in Sessions |->
                           IF t \in gone THEN Retired(MarkedExited(records[t])) ELSE records[t]]
      BY <2>8 DEF ContainerGone
    <3>2. records'[s].peers = records[s].peers
      BY <2>0, <3>1 DEF Retired, MarkedExited, Record
    <3>. QED
      BY <2>2, <3>1, <3>2
  <2>9. CASE UNCHANGED managerVars
    BY <1>1, <2>9 DEF managerVars
  <2>. QED
    BY <1>1, <2>3, <2>4, <2>5, <2>7, <2>8, <2>9 DEF ManagerNext
<1>2. ManagerInv /\ [ManagerNext]_managerVars =>
        [\A s \in byId \ byId' :
           \/ records'[s].peers = {}
           \/ \E w \in waits : w \notin waits' /\ w.session = s /\ w.next = "restart"
           \/ records[s].ended /\ ~records'[s].ended]_managerVars
  BY <1>1
<1>. QED
  BY <1>2, ManagerInvariant, PTL DEF ManagerSpec, KnownWhileNamed
=============================================================================
