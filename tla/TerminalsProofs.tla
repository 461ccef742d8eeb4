-------------------------- MODULE TerminalsProofs --------------------------
(***************************************************************************)
(* A page has open what the server streams to it, for any pages, panes and *)
(* bounds, when a page opens and leaves panes only while nothing is on its *)
(* way for them (~Races): TermInv is inductive.                            *)
(***************************************************************************)
EXTENDS Terminals, FiniteSetTheorems, SequenceTheorems, TLAPS

USE TerminalsAssumption

-----------------------------------------------------------------------------
(* The invariant.                                                          *)

Proc ==
  [pane : Pane, subs : SUBSET Page, opener : Page, st : {"waits", "live", "over"}, ending : BOOLEAN]

Message == ({"frame", "closed"} \X Pane) \cup ({"failed"} \X Nat) \cup ({"containers"} \X BOOLEAN)

Stop == <<"containers", FALSE>>
Connect == <<"containers", TRUE>>

TermTypeOK ==
  /\ mgr \in [procs : Seq(Proc), ctl : [Pane -> Nat]]
  /\ up \in BOOLEAN
  /\ reach \subseteq Page /\ failed \subseteq Page
  /\ key \in [Page -> Pane \cup {None}]
  /\ shows \in [Page -> Pane \cup {None}]
  /\ pending \in [Page -> SUBSET Nat]
  /\ inbox \in [Page -> Seq(Message)]

(* The controllers of the map m.ctl are those that neither are over nor    *)
(* end.                                                                    *)
Mapped(m) ==
  /\ \A p \in Pane : m.ctl[p] # 0 =>
       /\ m.ctl[p] \in 1..Len(m.procs)
       /\ m.procs[m.ctl[p]].pane = p
       /\ m.procs[m.ctl[p]].st # "over" /\ ~m.procs[m.ctl[p]].ending
  /\ \A i \in 1..Len(m.procs) :
       m.procs[i].st # "over" /\ ~m.procs[i].ending => m.ctl[m.procs[i].pane] = i

SubsIn(m, p) == IF m.ctl[p] = 0 THEN {} ELSE m.procs[m.ctl[p]].subs

(* An open that waits for its first frame is known to its page for as long *)
(* as the page is streamed to.                                             *)
Opened ==
  \A i \in 1..Len(Procs) : Procs[i].st = "waits" =>
    /\ up
    /\ i \in pending[Procs[i].opener] => Procs[i].opener \in Procs[i].subs /\ ~Procs[i].ending
    /\ Procs[i].opener \in Procs[i].subs => i \in pending[Procs[i].opener]

(* What is said to have failed is over.                                    *)
FailedIn(q, procs) ==
  \A n \in DOMAIN q :
    q[n][1] = "failed" => q[n][2] \in 1..Len(procs) /\ procs[q[n][2]].st = "over"

(* Messages that end a page's open, when it knows of the opens in known.   *)
IsEnd(m, known) == m[1] = "closed" \/ (m[1] = "failed" /\ m[2] \in known)
EndsIn(q, known) == {n \in DOMAIN q : IsEnd(q[n], known)}

(* While the container is down: its end has been heard, or will be.        *)
StopAhead(q) ==
  \E n \in DOMAIN q : q[n] = Stop /\ \A m \in DOMAIN q : m > n => q[m] # Connect
StopIn(q, reached) == reached \/ (\E n \in DOMAIN q : q[n] = Connect) => StopAhead(q)

(* While it runs: a page is streamed to what it has open, or the one       *)
(* message that ends it is on its way.                                     *)
RunsIn(q, known, k, streamed) ==
  /\ \A n \in DOMAIN q : q[n] # Stop
  /\ \A n, m \in EndsIn(q, known) : n = m
  /\ \A n \in EndsIn(q, known) : k # None /\ (q[n][1] = "closed" => q[n][2] = k)
  /\ k # None => (streamed <=> EndsIn(q, known) = {})

PageFits(v) ==
  /\ pending[v] \subseteq 1..Len(Procs)
  /\ FailedIn(inbox[v], Procs)
  /\ key[v] # None => v \in reach /\ v \notin failed
  /\ \A p \in Pane : v \in SubsIn(mgr, p) => key[v] = p
  /\ ~up => StopIn(inbox[v], v \in reach)
  /\ up => RunsIn(inbox[v], pending[v], key[v], v \in SubsIn(mgr, key[v]))

Down == ~up => \A p \in Pane : mgr.ctl[p] = 0

TermInv ==
  /\ TermTypeOK /\ Mapped(mgr) /\ Opened /\ Down
  /\ \A v \in Page : PageFits(v)

-----------------------------------------------------------------------------
(* Queues of messages.                                                     *)

LEMMA Messages ==
  /\ Stop \in Message /\ Connect \in Message /\ Stop # Connect
  /\ \A b \in BOOLEAN : <<"containers", b>> \in Message
  /\ \A p \in Pane : <<"frame", p>> \in Message /\ <<"closed", p>> \in Message
  /\ \A i \in Nat : <<"failed", i>> \in Message
  /\ \A known : ~IsEnd(Stop, known) /\ ~IsEnd(Connect, known)
  /\ \A p \in Pane : \A known : ~IsEnd(<<"frame", p>>, known) /\ IsEnd(<<"closed", p>>, known)
  /\ \A i \in Nat : \A known : IsEnd(<<"failed", i>>, known) <=> i \in known
  /\ \A m \in Message : m[1] # "containers" => m # Stop /\ m # Connect
<1>1. /\ \A p \in Pane : <<"frame", p>> \in Message /\ <<"closed", p>> \in Message
      /\ \A i \in Nat : <<"failed", i>> \in Message
      /\ \A b \in BOOLEAN : <<"containers", b>> \in Message
  BY DEF Message
<1>2. Stop \in Message /\ Connect \in Message /\ Stop # Connect
  BY <1>1 DEF Stop, Connect
<1>3. \A known : ~IsEnd(Stop, known) /\ ~IsEnd(Connect, known)
  BY DEF Stop, Connect, IsEnd
<1>4. \A p \in Pane : \A known : ~IsEnd(<<"frame", p>>, known) /\ IsEnd(<<"closed", p>>, known)
  BY DEF IsEnd
<1>5. \A i \in Nat : \A known : IsEnd(<<"failed", i>>, known) <=> i \in known
  BY DEF IsEnd
<1>6. \A m \in Message : m[1] # "containers" => m # Stop /\ m # Connect
  <2>1. Stop[1] = "containers" /\ Connect[1] = "containers"
    BY DEF Stop, Connect
  <2>. QED
    BY <2>1
<1>. QED
  BY <1>1, <1>2, <1>3, <1>4, <1>5, <1>6

LEMMA OfContainers ==
  ASSUME NEW m \in Message, m[1] = "containers"
  PROVE  /\ m[2] => m = Connect
         /\ ~m[2] => m = Stop
<1>1. m \in {"containers"} \X BOOLEAN
  BY DEF Message
<1>2. PICK b \in BOOLEAN : m = <<"containers", b>>
  BY <1>1
<1>. QED
  BY <1>2 DEF Stop, Connect

(* A message joins a queue.                                                *)
LEMMA QueueJoins ==
  ASSUME NEW q \in Seq(Message), NEW m \in Message
  PROVE  /\ Append(q, m) \in Seq(Message) /\ q \o <<m>> = Append(q, m)
         /\ DOMAIN q = 1..Len(q) /\ Len(q) \in Nat
         /\ DOMAIN Append(q, m) = 1..Len(q) + 1
         /\ Append(q, m)[Len(q) + 1] = m
         /\ \A n \in 1..Len(q) : Append(q, m)[n] = q[n]
         /\ \A known, n : n \in EndsIn(Append(q, m), known) <=>
              n \in EndsIn(q, known) \/ (n = Len(q) + 1 /\ IsEnd(m, known))
<1>1. /\ Append(q, m) \in Seq(Message) /\ q \o <<m>> = Append(q, m)
      /\ DOMAIN q = 1..Len(q) /\ Len(q) \in Nat
      /\ Len(Append(q, m)) = Len(q) + 1 /\ DOMAIN Append(q, m) = 1..Len(Append(q, m))
      /\ Append(q, m)[Len(q) + 1] = m
      /\ \A n \in 1..Len(q) : Append(q, m)[n] = q[n]
  OBVIOUS
<1>. QED
  BY <1>1 DEF EndsIn

(* The first one is read.                                                  *)
LEMMA Reads ==
  ASSUME NEW q \in Seq(Message), q # <<>>
  PROVE  /\ Tail(q) \in Seq(Message) /\ Head(q) \in Message /\ Head(q) = q[1] /\ 1 \in DOMAIN q
         /\ \A n : n \in DOMAIN Tail(q) <=> n \in Nat \ {0} /\ n + 1 \in DOMAIN q
         /\ \A n \in DOMAIN Tail(q) : Tail(q)[n] = q[n + 1]
         /\ \A n \in DOMAIN q : n # 1 => n - 1 \in DOMAIN Tail(q) /\ Tail(q)[n - 1] = q[n]
         /\ \A known, n : n \in EndsIn(Tail(q), known) => n + 1 \in EndsIn(q, known)
         /\ \A known, n : n \in EndsIn(q, known) /\ n # 1 => n - 1 \in EndsIn(Tail(q), known)
<1>1. /\ Len(q) \in Nat \ {0} /\ DOMAIN q = 1..Len(q)
      /\ Tail(q) \in Seq(Message) /\ Len(Tail(q)) = Len(q) - 1 /\ Head(q) \in Message
      /\ \A i \in 1..Len(Tail(q)) : Tail(q)[i] = q[i + 1]
  BY EmptySeq, HeadTailProperties
<1>2. DOMAIN Tail(q) = 1..Len(q) - 1
  BY <1>1
<1>3. Head(q) = q[1] /\ 1 \in DOMAIN q
  BY <1>1
<1>4. \A n : n \in DOMAIN Tail(q) <=> n \in Nat \ {0} /\ n + 1 \in DOMAIN q
  BY <1>1, <1>2
<1>5. \A n \in DOMAIN q : n # 1 => n - 1 \in DOMAIN Tail(q) /\ Tail(q)[n - 1] = q[n]
  BY <1>1, <1>2
<1>6. \A n \in DOMAIN Tail(q) : Tail(q)[n] = q[n + 1] /\ n + 1 \in DOMAIN q
  BY <1>1, <1>2, <1>4
<1>7. \A known, n : n \in EndsIn(Tail(q), known) => n + 1 \in EndsIn(q, known)
  BY <1>6 DEF EndsIn
<1>8. \A known, n : n \in EndsIn(q, known) /\ n # 1 => n - 1 \in EndsIn(Tail(q), known)
  BY <1>5 DEF EndsIn
<1>. QED
  BY <1>1, <1>3, <1>4, <1>5, <1>6, <1>7, <1>8

(* A message that ends nothing joins what a page is sent.                  *)
LEMMA RunsOther ==
  ASSUME NEW q \in Seq(Message), NEW m \in Message, NEW known, NEW k, NEW s \in BOOLEAN,
         RunsIn(q, known, k, s), m # Stop, ~IsEnd(m, known)
  PROVE  RunsIn(Append(q, m), known, k, s)
<1>1. \A n \in DOMAIN Append(q, m) : Append(q, m)[n] # Stop
  BY QueueJoins DEF RunsIn
<1>2. EndsIn(Append(q, m), known) = EndsIn(q, known)
  <2>1. \A n : n \in EndsIn(Append(q, m), known) <=> n \in EndsIn(q, known)
    BY QueueJoins
  <2>. QED
    BY <2>1
<1>3. \A n \in EndsIn(q, known) : Append(q, m)[n] = q[n]
  BY QueueJoins DEF EndsIn
<1>. QED
  BY <1>1, <1>2, <1>3 DEF RunsIn

(* The one message that ends its open joins it.                            *)
LEMMA RunsEnd ==
  ASSUME NEW q \in Seq(Message), NEW m \in Message, NEW known, NEW k,
         RunsIn(q, known, k, TRUE), k # None,
         m # Stop, IsEnd(m, known), m[1] = "closed" => m[2] = k
  PROVE  RunsIn(Append(q, m), known, k, FALSE)
<1>1. \A n \in DOMAIN Append(q, m) : Append(q, m)[n] # Stop
  BY QueueJoins DEF RunsIn
<1>2. EndsIn(q, known) = {}
  BY DEF RunsIn
<1>3. EndsIn(Append(q, m), known) = {Len(q) + 1}
  BY <1>2, QueueJoins
<1>4. Append(q, m)[Len(q) + 1] = m
  BY QueueJoins
<1>. QED
  BY <1>1, <1>3, <1>4 DEF RunsIn

(* One that ends nothing is read.                                          *)
LEMMA RunsTail ==
  ASSUME NEW q \in Seq(Message), q # <<>>, NEW known, NEW k, NEW s \in BOOLEAN,
         RunsIn(q, known, k, s), ~IsEnd(Head(q), known)
  PROVE  RunsIn(Tail(q), known, k, s)
<1>1. \A n \in DOMAIN Tail(q) : Tail(q)[n] # Stop
  BY Reads DEF RunsIn
<1>2. 1 \notin EndsIn(q, known)
  BY Reads DEF EndsIn
<1>3. \A n \in EndsIn(Tail(q), known) : n + 1 \in EndsIn(q, known) /\ Tail(q)[n] = q[n + 1] /\ n \in Nat
  BY Reads DEF EndsIn
<1>4. EndsIn(Tail(q), known) = {} <=> EndsIn(q, known) = {}
  BY <1>2, <1>3, Reads
<1>5. \A n, m \in EndsIn(Tail(q), known) : n = m
  <2>1. SUFFICES ASSUME NEW n \in EndsIn(Tail(q), known), NEW m \in EndsIn(Tail(q), known)
                 PROVE  n = m
    OBVIOUS
  <2>2. n + 1 = m + 1 /\ n \in Nat /\ m \in Nat
    BY <1>3 DEF RunsIn
  <2>. QED
    BY <2>2
<1>6. ASSUME NEW n \in EndsIn(Tail(q), known)
      PROVE  k # None /\ (Tail(q)[n][1] = "closed" => Tail(q)[n][2] = k)
  <2>1. n + 1 \in EndsIn(q, known) /\ Tail(q)[n] = q[n + 1]
    BY <1>3
  <2>2. k # None /\ (q[n + 1][1] = "closed" => q[n + 1][2] = k)
    BY <2>1 DEF RunsIn
  <2>. QED
    BY <2>1, <2>2
<1>7. k # None => (s <=> EndsIn(Tail(q), known) = {})
  BY <1>4 DEF RunsIn
<1>. QED
  BY <1>1, <1>5, <1>6, <1>7 DEF RunsIn

(* The one that ends its open is read.                                     *)
LEMMA RunsHeard ==
  ASSUME NEW q \in Seq(Message), q # <<>>, NEW known, NEW k, NEW s \in BOOLEAN,
         RunsIn(q, known, k, s), IsEnd(Head(q), known)
  PROVE  /\ k # None /\ ~s /\ (Head(q)[1] = "closed" => Head(q)[2] = k)
         /\ \A t \in BOOLEAN : RunsIn(Tail(q), known, None, t)
<1>1. 1 \in EndsIn(q, known) /\ Head(q) = q[1]
  BY Reads DEF EndsIn
<1>2. k # None /\ ~s /\ (Head(q)[1] = "closed" => Head(q)[2] = k)
  BY <1>1 DEF RunsIn
<1>3. \A n \in DOMAIN Tail(q) : Tail(q)[n] # Stop
  BY Reads DEF RunsIn
<1>4. EndsIn(Tail(q), known) = {}
  <2>1. SUFFICES ASSUME NEW n \in EndsIn(Tail(q), known)
                 PROVE  FALSE
    OBVIOUS
  <2>2. n \in Nat \ {0} /\ n + 1 \in EndsIn(q, known)
    BY Reads DEF EndsIn
  <2>3. n + 1 = 1
    BY <2>2, <1>1 DEF RunsIn
  <2>. QED
    BY <2>2, <2>3
<1>. QED
  BY <1>2, <1>3, <1>4 DEF RunsIn

(* It forgets of opens.                                                    *)
LEMMA RunsForget ==
  ASSUME NEW q, NEW known, NEW rest, rest \subseteq known, RunsIn(q, known, None, TRUE)
  PROVE  \A t \in BOOLEAN : RunsIn(q, rest, None, t)
<1>1. EndsIn(q, known) = {}
  BY DEF RunsIn
<1>2. EndsIn(q, rest) = {}
  BY <1>1 DEF EndsIn, IsEnd
<1>. QED
  BY <1>2 DEF RunsIn

(* A page without an open opens: no message speaks of the number it takes. *)
LEMMA RunsOpen ==
  ASSUME NEW q \in Seq(Message), NEW known, NEW procs \in Seq(Proc), NEW s \in BOOLEAN,
         RunsIn(q, known, None, s), FailedIn(q, procs), NEW k
  PROVE  RunsIn(q, known \cup {Len(procs) + 1}, k, TRUE)
<1>1. EndsIn(q, known) = {}
  BY DEF RunsIn
<1>2. \A n \in DOMAIN q : q[n][1] = "failed" => q[n][2] # Len(procs) + 1
  BY DEF FailedIn
<1>3. EndsIn(q, known \cup {Len(procs) + 1}) = {}
  BY <1>1, <1>2 DEF EndsIn, IsEnd
<1>. QED
  BY <1>3 DEF RunsIn

(* A page without an open that has nothing on its way.                     *)
LEMMA RunsNone ==
  ASSUME NEW known, NEW s \in BOOLEAN
  PROVE  RunsIn(<<>>, known, None, s) /\ RunsIn(<<Connect>>, known, None, s)
<1>1. EndsIn(<<>>, known) = {} /\ EndsIn(<<Connect>>, known) = {}
  BY Messages DEF EndsIn
<1>. QED
  BY <1>1, Messages DEF RunsIn

(* What a page is sent while the container is down.                        *)
LEMMA StopJoins ==
  ASSUME NEW q \in Seq(Message), NEW m \in Message, NEW r \in BOOLEAN, StopIn(q, r), m # Connect
  PROVE  StopIn(Append(q, m), r)
<1>1. StopAhead(q) => StopAhead(Append(q, m))
  <2>1. SUFFICES ASSUME NEW n \in DOMAIN q, q[n] = Stop, \A j \in DOMAIN q : j > n => q[j] # Connect
                 PROVE  StopAhead(Append(q, m))
    BY DEF StopAhead
  <2>. QED
    BY <2>1, QueueJoins DEF StopAhead
<1>2. (\E n \in DOMAIN Append(q, m) : Append(q, m)[n] = Connect) => \E n \in DOMAIN q : q[n] = Connect
  BY QueueJoins
<1>. QED
  BY <1>1, <1>2 DEF StopIn

LEMMA StopReads ==
  ASSUME NEW q \in Seq(Message), q # <<>>, NEW r \in BOOLEAN, StopIn(q, r)
  PROVE  /\ Head(q) = Connect => StopIn(Tail(q), TRUE)
         /\ Head(q) = Stop => StopIn(Tail(q), FALSE)
         /\ Head(q) # Connect /\ Head(q) # Stop => StopIn(Tail(q), r)
<1>1. ASSUME StopAhead(q), ~StopAhead(Tail(q))
      PROVE  Head(q) = Stop /\ \A n \in DOMAIN Tail(q) : Tail(q)[n] # Connect
  <2>1. PICK n \in DOMAIN q : q[n] = Stop /\ \A j \in DOMAIN q : j > n => q[j] # Connect
    BY <1>1 DEF StopAhead
  <2>2. n = 1
    <3>1. SUFFICES ASSUME n # 1
                   PROVE  StopAhead(Tail(q))
      BY <1>1
    <3>2. n - 1 \in DOMAIN Tail(q) /\ Tail(q)[n - 1] = Stop
      BY <2>1, <3>1, Reads
    <3>3. \A j \in DOMAIN Tail(q) : j > n - 1 => Tail(q)[j] # Connect
      BY <2>1, Reads
    <3>. QED
      BY <3>2, <3>3 DEF StopAhead
  <2>3. \A j \in DOMAIN Tail(q) : Tail(q)[j] # Connect
    BY <2>1, <2>2, Reads
  <2>. QED
    BY <2>1, <2>2, <2>3, Reads
<1>2. \A n \in DOMAIN Tail(q) : Tail(q)[n] = Connect => StopAhead(q)
  BY Reads DEF StopIn
<1>3. Head(q) = Connect => StopAhead(q)
  BY Reads DEF StopIn
<1>. QED
  BY <1>1, <1>2, <1>3, Messages DEF StopIn

(* What is known of failed opens, as messages come and processes end.      *)
LEMMA FailedStays ==
  ASSUME NEW q \in Seq(Message), NEW a \in Seq(Proc), NEW b \in Seq(Proc), FailedIn(q, a),
         Len(a) <= Len(b), \A i \in 1..Len(a) : a[i].st = "over" => b[i].st = "over"
  PROVE  /\ FailedIn(q, b)
         /\ q # <<>> => FailedIn(Tail(q), b)
         /\ \A m \in Message :
              (m[1] = "failed" => m[2] \in 1..Len(b) /\ b[m[2]].st = "over") => FailedIn(Append(q, m), b)
<1>1. FailedIn(q, b)
  <2>1. SUFFICES ASSUME NEW n \in DOMAIN q, q[n][1] = "failed"
                 PROVE  q[n][2] \in 1..Len(b) /\ b[q[n][2]].st = "over"
    BY DEF FailedIn
  <2>2. q[n][2] \in 1..Len(a) /\ a[q[n][2]].st = "over"
    BY <2>1 DEF FailedIn
  <2>. QED
    BY <2>2
<1>2. ASSUME q # <<>>
      PROVE  FailedIn(Tail(q), b)
  BY <1>1, <1>2, Reads DEF FailedIn
<1>3. ASSUME NEW m \in Message, m[1] = "failed" => m[2] \in 1..Len(b) /\ b[m[2]].st = "over"
      PROVE  FailedIn(Append(q, m), b)
  BY <1>1, <1>3, QueueJoins DEF FailedIn
<1>. QED
  BY <1>1, <1>2, <1>3

-----------------------------------------------------------------------------
(* What ControllerManager makes of its state.                              *)

Manager == [procs : Seq(Proc), ctl : [Pane -> Nat]]

LEMMA EndingFits ==
  ASSUME NEW m \in Manager, NEW ps
  PROVE  \E e \in Seq(Proc) :
           /\ e = Ending(m, ps) /\ Len(e) = Len(m.procs)
           /\ \A i \in 1..Len(m.procs) :
                /\ e[i].pane = m.procs[i].pane /\ e[i].subs = m.procs[i].subs
                /\ e[i].opener = m.procs[i].opener /\ e[i].st = m.procs[i].st
                /\ IF m.procs[i].pane \in ps /\ m.ctl[m.procs[i].pane] = i
                   THEN e[i].ending = TRUE ELSE e[i].ending = m.procs[i].ending
<1>1. m.procs \in Seq(Proc) /\ DOMAIN m.procs = 1..Len(m.procs) /\ Len(m.procs) \in Nat
  BY DEF Manager
<1>2. \A i \in 1..Len(m.procs) : m.procs[i] \in Proc
  BY <1>1
<1>3. Ending(m, ps) = [i \in 1..Len(m.procs) |->
        IF m.procs[i].pane \in ps /\ m.ctl[m.procs[i].pane] = i
        THEN [m.procs[i] EXCEPT !.ending = TRUE] ELSE m.procs[i]]
  BY <1>1 DEF Ending
<1>4. ASSUME NEW i \in 1..Len(m.procs)
      PROVE  /\ Ending(m, ps)[i] \in Proc
             /\ Ending(m, ps)[i].pane = m.procs[i].pane /\ Ending(m, ps)[i].subs = m.procs[i].subs
             /\ Ending(m, ps)[i].opener = m.procs[i].opener /\ Ending(m, ps)[i].st = m.procs[i].st
             /\ IF m.procs[i].pane \in ps /\ m.ctl[m.procs[i].pane] = i
                THEN Ending(m, ps)[i].ending = TRUE
                ELSE Ending(m, ps)[i].ending = m.procs[i].ending
  <2>1. PICK c \in Proc : c = m.procs[i]
    BY <1>2
  <2>2. [c EXCEPT !.ending = TRUE] \in Proc
    BY DEF Proc
  <2>3. /\ [c EXCEPT !.ending = TRUE].pane = c.pane /\ [c EXCEPT !.ending = TRUE].subs = c.subs
        /\ [c EXCEPT !.ending = TRUE].opener = c.opener /\ [c EXCEPT !.ending = TRUE].st = c.st
        /\ [c EXCEPT !.ending = TRUE].ending = TRUE
    BY DEF Proc
  <2>4. Ending(m, ps)[i] = IF c.pane \in ps /\ m.ctl[c.pane] = i THEN [c EXCEPT !.ending = TRUE] ELSE c
    BY <1>3, <2>1
  <2>5. CASE c.pane \in ps /\ m.ctl[c.pane] = i
    BY <2>1, <2>2, <2>3, <2>4, <2>5
  <2>6. CASE ~(c.pane \in ps /\ m.ctl[c.pane] = i)
    BY <2>1, <2>4, <2>6
  <2>. QED
    BY <2>5, <2>6
<1>5. Ending(m, ps) \in [1..Len(m.procs) -> Proc]
  <2>1. DOMAIN Ending(m, ps) = 1..Len(m.procs)
    BY <1>3
  <2>2. Ending(m, ps) = [i \in 1..Len(m.procs) |-> Ending(m, ps)[i]]
    BY <1>3, <2>1
  <2>. QED
    BY <1>4, <2>2
<1>6. Ending(m, ps) \in Seq(Proc) /\ Len(Ending(m, ps)) = Len(m.procs)
  BY <1>1, <1>5, LenProperties
<1>. QED
  BY <1>4, <1>6

IsLeft(l, m, v, ps) ==
  /\ l = Left(m, v, ps) /\ Mapped(l) /\ Len(l.procs) = Len(m.procs)
  /\ \A i \in 1..Len(m.procs) :
       /\ l.procs[i].pane = m.procs[i].pane /\ l.procs[i].opener = m.procs[i].opener
       /\ l.procs[i].st = m.procs[i].st
       /\ \/ l.procs[i] = m.procs[i]
          \/ /\ m.procs[i].pane \in ps /\ ~m.procs[i].ending
             /\ l.procs[i].subs = m.procs[i].subs \ {v}
             /\ l.procs[i].ending = TRUE => m.procs[i].subs = {v}
  /\ \A p \in Pane :
       /\ m.ctl[p] = 0 => l.ctl[p] = 0
       /\ SubsIn(l, p) = IF p \in ps THEN SubsIn(m, p) \ {v} ELSE SubsIn(m, p)

LEMMA LeftFits ==
  ASSUME NEW m \in Manager, Mapped(m), NEW v \in Page, NEW ps
  PROVE  \E l \in Manager : IsLeft(l, m, v, ps)
<1>. DEFINE last(p) == m.ctl[p] # 0 /\ p \in ps /\ m.procs[m.ctl[p]].subs = {v}
            here(i) == m.procs[i].pane \in ps /\ m.ctl[m.procs[i].pane] = i
            one(i) == IF here(i) THEN [m.procs[i] EXCEPT !.subs = @ \ {v}, !.ending = last(m.procs[i].pane)]
                                 ELSE m.procs[i]
<1>1. /\ m.procs \in Seq(Proc) /\ DOMAIN m.procs = 1..Len(m.procs) /\ Len(m.procs) \in Nat
      /\ m.ctl \in [Pane -> Nat]
  BY DEF Manager
<1>2. \A i \in 1..Len(m.procs) : m.procs[i] \in Proc
  BY <1>1
<1>3. PICK procs : procs = [i \in 1..Len(m.procs) |-> one(i)]
  OBVIOUS
<1>4. PICK ctl : ctl = [p \in Pane |-> IF last(p) THEN 0 ELSE m.ctl[p]]
  OBVIOUS
<1>5. Left(m, v, ps) = [procs |-> procs, ctl |-> ctl]
  BY <1>1, <1>3, <1>4 DEF Left
<1>6. ASSUME NEW i \in 1..Len(m.procs)
      PROVE  /\ procs[i] \in Proc
             /\ procs[i].pane = m.procs[i].pane /\ procs[i].opener = m.procs[i].opener
             /\ procs[i].st = m.procs[i].st
             /\ here(i) => /\ procs[i].subs = m.procs[i].subs \ {v}
                           /\ procs[i].ending = TRUE <=> m.procs[i].subs = {v}
             /\ ~here(i) => procs[i] = m.procs[i]
  <2>1. PICK c \in Proc : c = m.procs[i]
    BY <1>2
  <2>2. PICK b \in BOOLEAN : b = last(c.pane)
    OBVIOUS
  <2>3. procs[i] = IF here(i) THEN [c EXCEPT !.subs = @ \ {v}, !.ending = b] ELSE c
    BY <1>3, <2>1, <2>2
  <2>4. CASE here(i)
    <3>1. PICK d : d = [c EXCEPT !.subs = @ \ {v}, !.ending = b]
      OBVIOUS
    <3>2. /\ d \in Proc /\ d.pane = c.pane /\ d.opener = c.opener /\ d.st = c.st
          /\ d.subs = c.subs \ {v} /\ d.ending = b
      BY <3>1 DEF Proc
    <3>3. procs[i] = d
      BY <2>3, <2>4, <3>1
    <3>4. b <=> c.subs = {v}
      <4>1. i # 0 /\ m.ctl[c.pane] = i /\ c.pane \in ps
        BY <1>1, <2>1, <2>4
      <4>2. m.procs[m.ctl[c.pane]].subs = c.subs
        BY <2>1, <4>1
      <4>. QED
        BY <2>2, <4>1, <4>2
    <3>. QED
      BY <2>1, <2>4, <3>2, <3>3, <3>4
  <2>5. CASE ~here(i)
    BY <2>1, <2>3, <2>5
  <2>. QED
    BY <2>4, <2>5
<1>7. procs \in Seq(Proc) /\ Len(procs) = Len(m.procs)
  <2>1. DOMAIN procs = 1..Len(m.procs) /\ procs = [i \in 1..Len(m.procs) |-> procs[i]]
    BY <1>3
  <2>2. procs \in [1..Len(m.procs) -> Proc]
    BY <1>6, <2>1
  <2>. QED
    BY <1>1, <2>2, LenProperties
<1>8. ctl \in [Pane -> Nat] /\ \A p \in Pane : ctl[p] = IF last(p) THEN 0 ELSE m.ctl[p]
  BY <1>1, <1>4
<1>9. PICK l : l = [procs |-> procs, ctl |-> ctl]
  OBVIOUS
<1>10. l \in Manager /\ l = Left(m, v, ps) /\ l.procs = procs /\ l.ctl = ctl
  <2>. HIDE DEF last, here
  <2>. QED
    BY <1>5, <1>7, <1>8, <1>9 DEF Manager
<1>. HIDE DEF one
(* A pane whose controller is mapped is here.                              *)
<1>11. \A p \in Pane : m.ctl[p] # 0 =>
        /\ m.ctl[p] \in 1..Len(m.procs) /\ m.procs[m.ctl[p]].pane = p
        /\ m.procs[m.ctl[p]].st # "over" /\ ~m.procs[m.ctl[p]].ending
        /\ here(m.ctl[p]) <=> p \in ps
  BY DEF Mapped
<1>12. \A i \in 1..Len(m.procs) : here(i) =>
         m.procs[i].pane \in Pane /\ m.ctl[m.procs[i].pane] # 0 /\ ~m.procs[i].ending
  <2>1. \A i \in 1..Len(m.procs) : m.procs[i].pane \in Pane
    BY <1>2 DEF Proc
  <2>. QED
    BY <1>1, <1>11, <2>1
<1>13. ASSUME NEW p \in Pane, l.ctl[p] # 0
       PROVE  /\ l.ctl[p] = m.ctl[p] /\ m.ctl[p] # 0 /\ ~last(p) /\ l.ctl[p] \in 1..Len(l.procs)
              /\ l.procs[l.ctl[p]].pane = p /\ l.procs[l.ctl[p]].st # "over" /\ ~l.procs[l.ctl[p]].ending
  <2>1. l.ctl[p] = m.ctl[p] /\ m.ctl[p] # 0 /\ ~last(p)
    BY <1>8, <1>10, <1>13
  <2>2. PICK i \in 1..Len(m.procs) : i = m.ctl[p]
    BY <1>11, <2>1
  <2>3. l.ctl[p] \in 1..Len(l.procs) /\ l.procs[l.ctl[p]].pane = p /\ l.procs[l.ctl[p]].st # "over"
    <3>1. m.procs[i].pane = p /\ m.procs[i].st # "over"
      BY <1>11, <2>1, <2>2
    <3>2. l.procs[l.ctl[p]] = procs[i] /\ l.ctl[p] = i /\ Len(l.procs) = Len(m.procs)
      BY <1>7, <1>10, <2>1, <2>2
    <3>. HIDE DEF last, here
    <3>3. procs[i].pane = m.procs[i].pane /\ procs[i].st = m.procs[i].st
      BY <1>6
    <3>. QED
      BY <2>2, <3>1, <3>2, <3>3
  <2>4. ~l.procs[l.ctl[p]].ending
    <3>1. procs[i].ending \in BOOLEAN
      BY <1>6 DEF Proc
    <3>2. CASE here(i)
      <4>1. m.procs[i].subs # {v}
        BY <2>1, <2>2, <3>2, <1>11
      <4>2. procs[i].ending # TRUE
        BY <1>6, <3>2, <4>1
      <4>3. l.procs[l.ctl[p]] = procs[i]
        BY <1>10, <2>1, <2>2
      <4>4. procs[i].ending = FALSE
        BY <3>1, <4>2
      <4>. QED
        BY <4>3, <4>4
    <3>3. CASE ~here(i)
      <4>1. ~m.procs[i].ending
        BY <1>11, <2>1, <2>2
      <4>. QED
        <5>1. l.procs[l.ctl[p]] = procs[i]
          BY <1>10, <2>1, <2>2
        <5>2. procs[i] = m.procs[i]
          BY <1>6, <3>3
        <5>. QED
          BY <4>1, <5>1, <5>2
    <3>. QED
      BY <3>2, <3>3
  <2>. QED
    BY <2>1, <2>3, <2>4
<1>14. ASSUME NEW i \in 1..Len(l.procs), l.procs[i].st # "over", ~l.procs[i].ending
       PROVE  l.ctl[l.procs[i].pane] = i
  <2>1. i \in 1..Len(m.procs) /\ m.procs[i] \in Proc /\ procs[i].st = m.procs[i].st
    BY <1>2, <1>6, <1>7, <1>10, <1>14
  <2>2. ~m.procs[i].ending
    <3>1. CASE here(i)
      BY <1>12, <2>1, <3>1
    <3>2. CASE ~here(i)
      BY <1>6, <1>10, <1>14, <2>1, <3>2
    <3>. QED
      BY <3>1, <3>2
  <2>3. m.ctl[m.procs[i].pane] = i
    BY <1>10, <1>14, <2>1, <2>2 DEF Mapped
  <2>4. ~last(m.procs[i].pane)
    <3>1. SUFFICES ASSUME last(m.procs[i].pane)
                   PROVE  FALSE
      OBVIOUS
    <3>2. here(i) /\ m.procs[i].subs = {v}
      BY <2>3, <3>1
    <3>3. procs[i].ending = TRUE
      BY <1>6, <2>1, <3>2
    <3>. QED
      BY <1>10, <1>14, <3>3
  <2>5. m.procs[i].pane \in Pane /\ procs[i].pane = m.procs[i].pane
    BY <1>6, <2>1 DEF Proc
  <2>. QED
    BY <1>8, <1>10, <2>3, <2>4, <2>5
<1>15. Mapped(l)
  BY <1>13, <1>14 DEF Mapped
<1>16. ASSUME NEW p \in Pane
       PROVE  /\ m.ctl[p] = 0 => l.ctl[p] = 0
              /\ SubsIn(l, p) = IF p \in ps THEN SubsIn(m, p) \ {v} ELSE SubsIn(m, p)
  <2>1. CASE m.ctl[p] = 0
    BY <1>8, <1>10, <2>1 DEF SubsIn
  <2>2. CASE last(p)
    BY <1>8, <1>10, <2>2 DEF SubsIn
  <2>3. CASE m.ctl[p] # 0 /\ ~last(p)
    <3>1. PICK i \in 1..Len(m.procs) : i = m.ctl[p]
      BY <1>11, <2>3
    <3>2. l.ctl[p] = i /\ i # 0
      BY <1>8, <1>10, <2>3, <3>1
    <3>3. SubsIn(l, p) = procs[i].subs /\ SubsIn(m, p) = m.procs[i].subs
      BY <1>10, <2>3, <3>1, <3>2 DEF SubsIn
    <3>4. here(i) <=> p \in ps
      BY <1>11, <2>3, <3>1
    <3>5. here(i) => procs[i].subs = m.procs[i].subs \ {v}
      BY <1>6
    <3>6. ~here(i) => procs[i].subs = m.procs[i].subs
      BY <1>6
    <3>. HIDE DEF here, last
    <3>. QED
      BY <2>3, <3>3, <3>4, <3>5, <3>6
  <2>. QED
    BY <2>1, <2>2, <2>3
<1>17. ASSUME NEW i \in 1..Len(m.procs)
       PROVE  /\ l.procs[i].pane = m.procs[i].pane /\ l.procs[i].opener = m.procs[i].opener
              /\ l.procs[i].st = m.procs[i].st
              /\ \/ l.procs[i] = m.procs[i]
                 \/ /\ m.procs[i].pane \in ps /\ ~m.procs[i].ending
                    /\ l.procs[i].subs = m.procs[i].subs \ {v}
                    /\ l.procs[i].ending = TRUE => m.procs[i].subs = {v}
  BY <1>6, <1>10, <1>12
<1>. QED
  BY <1>7, <1>10, <1>15, <1>16, <1>17 DEF IsLeft

(* A process is appended.                                                  *)
LEMMA Appended ==
  ASSUME NEW ps \in Seq(Proc), NEW c \in Proc
  PROVE  /\ Append(ps, c) \in Seq(Proc) /\ Len(Append(ps, c)) = Len(ps) + 1 /\ Len(ps) \in Nat
         /\ Append(ps, c)[Len(ps) + 1] = c
         /\ \A i \in 1..Len(ps) : Append(ps, c)[i] = ps[i]
OBVIOUS

LEMMA News ==
  ASSUME NEW v, NEW p, NEW subs
  PROVE  /\ New(v, p, subs, "waits") = [pane |-> p, subs |-> subs, opener |-> v, st |-> "waits", ending |-> FALSE]
         /\ New(v, p, subs, "over") = [pane |-> p, subs |-> subs, opener |-> v, st |-> "over", ending |-> TRUE]
<1>1. ("waits" = "over") = FALSE /\ ("over" = "over") = TRUE
  OBVIOUS
<1>. QED
  BY <1>1, Zenon DEF New

LEMMA SubsFit ==
  ASSUME NEW m \in Manager, Mapped(m), NEW p \in Pane
  PROVE  SubsIn(m, p) \in SUBSET Page
<1>1. ASSUME m.ctl[p] # 0
      PROVE  m.procs[m.ctl[p]] \in Proc
  BY <1>1 DEF Mapped, Manager
<1>. QED
  BY <1>1 DEF SubsIn, Proc

IsJoined(j, m, v, p) ==
  /\ j = Joined(m, v, p) /\ Mapped(j) /\ Len(j.procs) = Len(m.procs) + 1
  /\ \A i \in 1..Len(m.procs) :
       /\ j.procs[i].pane = m.procs[i].pane /\ j.procs[i].opener = m.procs[i].opener
       /\ j.procs[i].st = m.procs[i].st /\ j.procs[i].subs = m.procs[i].subs
       /\ m.procs[i].pane # p => j.procs[i].ending = m.procs[i].ending
  /\ \E c \in Proc :
       /\ c = j.procs[Len(m.procs) + 1] /\ c.pane = p /\ c.opener = v
       /\ c.subs = SubsIn(m, p) \cup {v} /\ c.st = "waits" /\ c.ending = FALSE
  /\ \A q \in Pane : SubsIn(j, q) = IF q = p THEN SubsIn(m, p) \cup {v} ELSE SubsIn(m, q)

LEMMA JoinedFits ==
  ASSUME NEW m \in Manager, Mapped(m), NEW v \in Page, NEW p \in Pane
  PROVE  \E j \in Manager : IsJoined(j, m, v, p)
<1>1. m.procs \in Seq(Proc) /\ m.ctl \in [Pane -> Nat] /\ Len(m.procs) \in Nat
  BY DEF Manager
<1>2. PICK only : only = {p}
  OBVIOUS
<1>3. PICK e \in Seq(Proc) :
        /\ e = Ending(m, only) /\ Len(e) = Len(m.procs)
        /\ \A i \in 1..Len(m.procs) :
             /\ e[i].pane = m.procs[i].pane /\ e[i].subs = m.procs[i].subs
             /\ e[i].opener = m.procs[i].opener /\ e[i].st = m.procs[i].st
             /\ IF m.procs[i].pane \in only /\ m.ctl[m.procs[i].pane] = i
                THEN e[i].ending = TRUE ELSE e[i].ending = m.procs[i].ending
  BY EndingFits
<1>4. PICK subs : subs = SubsIn(m, p) \cup {v} /\ subs \subseteq Page
  BY SubsFit
<1>5. PICK c : c = [pane |-> p, subs |-> subs, opener |-> v, st |-> "waits", ending |-> FALSE]
  OBVIOUS
<1>6. c = New(v, p, subs, "waits")
  BY <1>5, News, Zenon
<1>7. /\ c \in Proc /\ c.pane = p /\ c.opener = v /\ c.subs = SubsIn(m, p) \cup {v} /\ c.st = "waits" /\ c.ending = FALSE
  BY <1>5, <1>4 DEF Proc
<1>8. PICK n \in Nat : n = Len(m.procs) /\ Len(e) = n
  BY <1>3, <1>1
<1>9. PICK ps \in Seq(Proc) : ps = Append(e, c)
  BY <1>7, Appended
<1>10. Len(ps) = n + 1 /\ ps[n + 1] = c /\ \A i \in 1..n : ps[i] = e[i]
  BY <1>7, <1>8, <1>9, Appended
<1>11. PICK ctl : ctl = [m.ctl EXCEPT ![p] = n + 1]
  OBVIOUS
<1>12. ctl \in [Pane -> Nat] /\ ctl[p] = n + 1 /\ \A q \in Pane : q # p => ctl[q] = m.ctl[q]
  BY <1>1, <1>11
<1>13. PICK j : j = [procs |-> ps, ctl |-> ctl]
  OBVIOUS
<1>14. j \in Manager /\ j.procs = ps /\ j.ctl = ctl
  BY <1>12, <1>13 DEF Manager
<1>15. j = Joined(m, v, p)
  <2>1. Joined(m, v, p) = [procs |-> Append(Ending(m, {p}), New(v, p, SubsIn(m, p) \cup {v}, "waits")),
                           ctl |-> [m.ctl EXCEPT ![p] = Len(m.procs) + 1]]
    BY DEF Joined, SubsIn
  <2>. QED
    BY <1>3, <1>6, <1>4, <1>2, <1>8, <1>9, <1>11, <1>13, <2>1
<1>16. ASSUME NEW i \in 1..n
       PROVE  /\ ps[i].pane = m.procs[i].pane /\ ps[i].opener = m.procs[i].opener
              /\ ps[i].st = m.procs[i].st /\ ps[i].subs = m.procs[i].subs
              /\ m.procs[i].pane # p => ps[i].ending = m.procs[i].ending
              /\ m.procs[i].pane = p => ps[i].ending = IF m.ctl[p] = i THEN TRUE ELSE m.procs[i].ending
  <2>1. ps[i] = e[i] /\ i \in 1..Len(m.procs)
    BY <1>3, <1>8, <1>10
  <2>2. m.procs[i].pane \in only <=> m.procs[i].pane = p
    BY <1>2
  <2>3. /\ ps[i].pane = m.procs[i].pane /\ ps[i].subs = m.procs[i].subs
        /\ ps[i].opener = m.procs[i].opener /\ ps[i].st = m.procs[i].st
    BY <1>3, <2>1
  <2>4. IF m.procs[i].pane \in only /\ m.ctl[m.procs[i].pane] = i
        THEN ps[i].ending = TRUE ELSE ps[i].ending = m.procs[i].ending
    BY <1>3, <2>1
  <2>. QED
    BY <2>2, <2>3, <2>4
<1>17. ASSUME NEW q \in Pane, ctl[q] # 0
       PROVE  /\ ctl[q] \in 1..n + 1 /\ ps[ctl[q]].pane = q
              /\ ps[ctl[q]].st # "over" /\ ~ps[ctl[q]].ending
  <2>1. CASE q = p
    BY <1>7, <1>8, <1>10, <1>12, <2>1
  <2>2. CASE q # p
    <3>1. PICK i : i = m.ctl[q] /\ ctl[q] = i
      BY <1>12, <2>2
    <3>2. i \in 1..n /\ m.procs[i].pane = q /\ m.procs[i].st # "over" /\ ~m.procs[i].ending
      BY <1>8, <1>17, <3>1 DEF Mapped
    <3>3. ps[i].pane = q /\ ps[i].st # "over" /\ ps[i].ending = m.procs[i].ending
      BY <1>16, <2>2, <3>2
    <3>. QED
      BY <1>8, <3>1, <3>2, <3>3
  <2>. QED
    BY <2>1, <2>2
<1>18. ASSUME NEW i \in 1..n + 1, ps[i].st # "over", ~ps[i].ending
       PROVE  ctl[ps[i].pane] = i
  <2>1. CASE i = n + 1
    BY <1>7, <1>10, <1>12, <2>1
  <2>2. CASE i \in 1..n
    <3>1. m.procs[i].pane \in Pane
      <4>1. m.procs[i] \in Proc
        BY <1>8, <1>1, <2>2
      <4>. QED
        BY <4>1 DEF Proc
    <3>2. ~m.procs[i].ending /\ (m.procs[i].pane = p => m.ctl[p] # i)
      BY <1>16, <1>18, <2>2
    <3>3. m.ctl[m.procs[i].pane] = i
      BY <1>8, <1>16, <1>18, <2>2, <3>2 DEF Mapped
    <3>. QED
      BY <1>12, <1>16, <2>2, <3>1, <3>2, <3>3
  <2>. QED
    BY <1>8, <2>1, <2>2
<1>19. Mapped(j)
  BY <1>10, <1>14, <1>17, <1>18 DEF Mapped
<1>20. ASSUME NEW q \in Pane
       PROVE  SubsIn(j, q) = IF q = p THEN SubsIn(m, p) \cup {v} ELSE SubsIn(m, q)
  <2>1. CASE q = p
    BY <1>7, <1>8, <1>10, <1>12, <1>14, <2>1 DEF SubsIn
  <2>2. CASE q # p
    <3>1. PICK i : i = m.ctl[q] /\ ctl[q] = i
      BY <1>12, <2>2
    <3>2. i # 0 => i \in 1..n
      BY <1>8, <3>1 DEF Mapped
    <3>3. i # 0 => ps[i].subs = m.procs[i].subs
      BY <1>16, <3>2
    <3>. QED
      BY <1>14, <2>2, <3>1, <3>3 DEF SubsIn
  <2>. QED
    BY <2>1, <2>2
<1>21. /\ Len(j.procs) = Len(m.procs) + 1 /\ j.procs[Len(m.procs) + 1] = c
       /\ \A i \in 1..Len(m.procs) : j.procs[i] = ps[i]
  BY <1>8, <1>10, <1>14
<1>22. \A i \in 1..Len(m.procs) :
         /\ j.procs[i].pane = m.procs[i].pane /\ j.procs[i].opener = m.procs[i].opener
         /\ j.procs[i].st = m.procs[i].st /\ j.procs[i].subs = m.procs[i].subs
         /\ m.procs[i].pane # p => j.procs[i].ending = m.procs[i].ending
  BY <1>8, <1>16, <1>21
<1>. QED
  BY <1>7, <1>14, <1>15, <1>19, <1>20, <1>21, <1>22 DEF IsJoined

IsRefused(j, m, v, p) ==
  /\ j = Refused(m, v, p) /\ Mapped(j) /\ Len(j.procs) = Len(m.procs) + 1
  /\ \A i \in 1..Len(m.procs) : j.procs[i] = m.procs[i]
  /\ j.procs[Len(m.procs) + 1].st = "over"
  /\ j.ctl = m.ctl
  /\ \A q \in Pane : SubsIn(j, q) = SubsIn(m, q)

LEMMA RefusedFits ==
  ASSUME NEW m \in Manager, Mapped(m), NEW v \in Page, NEW p \in Pane
  PROVE  \E j \in Manager : IsRefused(j, m, v, p)
<1>1. PICK c \in Proc : c = New(v, p, {}, "over") /\ c.st = "over"
  <2>1. PICK c : c = [pane |-> p, subs |-> {}, opener |-> v, st |-> "over", ending |-> TRUE]
    OBVIOUS
  <2>2. c \in Proc /\ c.st = "over"
    BY <2>1 DEF Proc
  <2>3. c = New(v, p, {}, "over")
    BY <2>1, News, Zenon
  <2>. QED
    BY <2>2, <2>3
<1>2. PICK n \in Nat : n = Len(m.procs)
  BY DEF Manager
<1>3. PICK ps \in Seq(Proc) : ps = Append(m.procs, c)
  BY Appended DEF Manager
<1>4. Len(ps) = n + 1 /\ ps[n + 1] = c /\ \A i \in 1..n : ps[i] = m.procs[i]
  BY <1>2, <1>3, Appended DEF Manager
<1>5. PICK j : j = [procs |-> ps, ctl |-> m.ctl]
  OBVIOUS
<1>6. j \in Manager /\ j.procs = ps /\ j.ctl = m.ctl
  BY <1>5 DEF Manager
<1>7. j = Refused(m, v, p)
  <2>1. Refused(m, v, p) = [m EXCEPT !.procs = ps]
    BY <1>1, <1>3 DEF Refused
  <2>2. [m EXCEPT !.procs = ps] = [procs |-> ps, ctl |-> m.ctl]
    BY DEF Manager
  <2>. QED
    BY <1>5, <2>1, <2>2
<1>8. ASSUME NEW q \in Pane, m.ctl[q] # 0
      PROVE  m.ctl[q] \in 1..n /\ ps[m.ctl[q]] = m.procs[m.ctl[q]]
  BY <1>2, <1>4, <1>8 DEF Mapped
<1>9. Mapped(j)
  <2>1. \A q \in Pane : m.ctl[q] # 0 =>
          /\ m.ctl[q] \in 1..n + 1
          /\ ps[m.ctl[q]].pane = q /\ ps[m.ctl[q]].st # "over" /\ ~ps[m.ctl[q]].ending
    BY <1>2, <1>8 DEF Mapped
  <2>2. \A i \in 1..n + 1 : ps[i].st # "over" /\ ~ps[i].ending => m.ctl[ps[i].pane] = i
    BY <1>1, <1>2, <1>4 DEF Mapped
  <2>. QED
    BY <1>4, <1>6, <2>1, <2>2 DEF Mapped
<1>10. \A q \in Pane : SubsIn(j, q) = SubsIn(m, q)
  BY <1>6, <1>8 DEF SubsIn
<1>. QED
  BY <1>1, <1>2, <1>4, <1>6, <1>7, <1>9, <1>10 DEF IsRefused

-----------------------------------------------------------------------------
(* Pages, while something happens to others or to their panes.             *)

Grown ==
  /\ mgr' \in Manager /\ Len(Procs) <= Len(Procs')
  /\ \A i \in 1..Len(Procs) : Procs[i].st = "over" => Procs'[i].st = "over"

Same(v) ==
  /\ pending'[v] = pending[v] /\ key'[v] = key[v]
  /\ v \in reach' <=> v \in reach
  /\ v \in failed' <=> v \in failed

StreamsSame(v) == \A p \in Pane : v \in SubsIn(mgr', p) <=> v \in SubsIn(mgr, p)

LEMMA Types ==
  ASSUME TermTypeOK, NEW v \in Page
  PROVE  /\ mgr \in Manager /\ Procs \in Seq(Proc) /\ Len(Procs) \in Nat /\ Procs = mgr.procs
         /\ DOMAIN Procs = 1..Len(Procs) /\ mgr.ctl \in [Pane -> Nat]
         /\ inbox[v] \in Seq(Message) /\ key[v] \in Pane \cup {None} /\ shows[v] \in Pane \cup {None}
         /\ pending[v] \subseteq Nat
BY DEF TermTypeOK, Manager, Procs

(* Without an open it does not matter what is streamed.                    *)
LEMMA RunsUnopened ==
  ASSUME NEW q, NEW known, NEW s \in BOOLEAN, NEW t \in BOOLEAN, RunsIn(q, known, None, s)
  PROVE  RunsIn(q, known, None, t)
BY DEF RunsIn

LEMMA Elsewhere ==
  ASSUME TermInv, NEW v \in Page, Grown, Same(v), StreamsSame(v), inbox'[v] = inbox[v], up' = up
  PROVE  PageFits(v)'
<1>1. TermTypeOK /\ PageFits(v) /\ inbox[v] \in Seq(Message) /\ Procs \in Seq(Proc) /\ Procs' \in Seq(Proc)
      /\ key[v] \in Pane \cup {None}
  BY Types DEF TermInv, Grown, Manager, Procs
<1>2. pending'[v] \subseteq 1..Len(Procs')
  BY <1>1 DEF PageFits, Grown, Same
<1>3. FailedIn(inbox'[v], Procs')
  BY <1>1, FailedStays DEF PageFits, Grown
<1>4. key'[v] # None => v \in reach' /\ v \notin failed'
  BY <1>1 DEF PageFits, Same
<1>5. \A p \in Pane : v \in SubsIn(mgr', p) => key'[v] = p
  BY <1>1 DEF PageFits, Same, StreamsSame
<1>6. ~up' => StopIn(inbox'[v], v \in reach')
  BY <1>1 DEF PageFits, Same, StopIn
<1>7. up' => RunsIn(inbox'[v], pending'[v], key'[v], v \in SubsIn(mgr', key'[v]))
  <2>1. SUFFICES ASSUME up
                 PROVE  RunsIn(inbox[v], pending[v], key[v], v \in SubsIn(mgr', key[v]))
    BY DEF Same
  <2>2. RunsIn(inbox[v], pending[v], key[v], v \in SubsIn(mgr, key[v]))
    BY <1>1, <2>1 DEF PageFits
  <2>3. key[v] # None => (v \in SubsIn(mgr', key[v]) <=> v \in SubsIn(mgr, key[v]))
    BY <1>1 DEF StreamsSame
  <2>. QED
    BY <2>2, <2>3 DEF RunsIn
<1>. QED
  BY <1>2, <1>3, <1>4, <1>5, <1>6, <1>7 DEF PageFits

(* It is sent a message that ends nothing, or the one that ends its open.  *)
LEMMA Told ==
  ASSUME TermInv, NEW v \in Page, NEW m \in Message, Grown, Same(v), inbox'[v] = Append(inbox[v], m),
         up, up' = up, m[1] # "containers",
         m[1] = "failed" => m[2] \in 1..Len(Procs') /\ Procs'[m[2]].st = "over",
         \/ ~IsEnd(m, pending[v]) /\ StreamsSame(v)
         \/ /\ IsEnd(m, pending[v]) /\ key[v] # None /\ v \in SubsIn(mgr, key[v])
            /\ m[1] = "closed" => m[2] = key[v]
            /\ \A p \in Pane : v \notin SubsIn(mgr', p)
  PROVE  PageFits(v)'
<1>1. TermTypeOK /\ PageFits(v) /\ inbox[v] \in Seq(Message) /\ Procs \in Seq(Proc) /\ Procs' \in Seq(Proc)
      /\ key[v] \in Pane \cup {None} /\ m # Stop
  BY Types, Messages DEF TermInv, Grown, Manager, Procs
<1>2. pending'[v] \subseteq 1..Len(Procs')
  BY <1>1 DEF PageFits, Grown, Same
<1>3. FailedIn(inbox'[v], Procs')
  BY <1>1, FailedStays DEF PageFits, Grown
<1>4. key'[v] # None => v \in reach' /\ v \notin failed'
  BY <1>1 DEF PageFits, Same
<1>5. \A p \in Pane : v \in SubsIn(mgr', p) => key'[v] = p
  BY <1>1 DEF PageFits, Same, StreamsSame
<1>6. RunsIn(inbox[v], pending[v], key[v], v \in SubsIn(mgr, key[v]))
  BY <1>1 DEF PageFits
<1>7. RunsIn(inbox'[v], pending'[v], key'[v], v \in SubsIn(mgr', key'[v]))
  <2>1. CASE ~IsEnd(m, pending[v]) /\ StreamsSame(v)
    <3>1. PICK s \in BOOLEAN : RunsIn(inbox[v], pending[v], key[v], s) /\ (s <=> v \in SubsIn(mgr, key[v]))
      <4>1. CASE v \in SubsIn(mgr, key[v])
        BY <1>6, <4>1 DEF RunsIn
      <4>2. CASE v \notin SubsIn(mgr, key[v])
        BY <1>6, <4>2 DEF RunsIn
      <4>. QED
        BY <4>1, <4>2
    <3>2. RunsIn(Append(inbox[v], m), pending[v], key[v], s)
      BY <1>1, <2>1, <3>1, RunsOther
    <3>3. RunsIn(Append(inbox[v], m), pending[v], key[v], v \in SubsIn(mgr, key[v]))
      BY <3>1, <3>2 DEF RunsIn
    <3>4. key[v] # None => (v \in SubsIn(mgr', key[v]) <=> v \in SubsIn(mgr, key[v]))
      BY <1>1, <2>1 DEF StreamsSame
    <3>. QED
      BY <3>3, <3>4 DEF RunsIn, Same
  <2>2. CASE /\ IsEnd(m, pending[v]) /\ key[v] # None /\ v \in SubsIn(mgr, key[v])
             /\ m[1] = "closed" => m[2] = key[v]
             /\ \A p \in Pane : v \notin SubsIn(mgr', p)
    <3>1. RunsIn(inbox[v], pending[v], key[v], TRUE)
      BY <1>6, <2>2 DEF RunsIn
    <3>2. RunsIn(Append(inbox[v], m), pending[v], key[v], FALSE)
      BY <1>1, <2>2, <3>1, RunsEnd
    <3>3. v \notin SubsIn(mgr', key[v])
      BY <1>1, <2>2
    <3>. QED
      BY <3>2, <3>3 DEF RunsIn, Same
  <2>. QED
    BY <2>1, <2>2
<1>. QED
  BY <1>2, <1>3, <1>4, <1>5, <1>7 DEF PageFits

(* What each page is told joins its inbox.                                 *)
LEMMA Tells ==
  ASSUME TermTypeOK, NEW ms, Tell(ms), \A v \in Page : ms[v] \in Seq(Message)
  PROVE  /\ inbox' \in [Page -> Seq(Message)]
         /\ \A v \in Page : /\ inbox'[v] = inbox[v] \o ms[v]
                            /\ ms[v] = <<>> => inbox'[v] = inbox[v]
                            /\ \A m \in Message : ms[v] = <<m>> => inbox'[v] = Append(inbox[v], m)
<1>1. ASSUME NEW v \in Page
      PROVE  /\ inbox[v] \o ms[v] \in Seq(Message)
             /\ ms[v] = <<>> => inbox[v] \o ms[v] = inbox[v]
             /\ \A m \in Message : ms[v] = <<m>> => inbox[v] \o ms[v] = Append(inbox[v], m)
  <2>1. inbox[v] \in Seq(Message) /\ ms[v] \in Seq(Message)
    BY Types
  <2>2. inbox[v] \o ms[v] \in Seq(Message) /\ inbox[v] \o <<>> = inbox[v]
    BY <2>1, ConcatProperties, ConcatEmptySeq
  <2>3. \A m \in Message : inbox[v] \o <<m>> = Append(inbox[v], m)
    BY <2>1, QueueJoins
  <2>. QED
    BY <2>2, <2>3
<1>2. inbox' = [v \in Page |-> inbox[v] \o ms[v]]
  BY DEF Tell
<1>. QED
  BY <1>1, <1>2

-----------------------------------------------------------------------------
(* The processes.                                                          *)

(* #pump: the first frame.                                                 *)
LEMMA FrameFits ==
  ASSUME TermInv, NEW i \in DOMAIN Procs, Frame(i)
  PROVE  TermInv'
<1>1. TermTypeOK /\ Mapped(mgr) /\ Opened /\ Down /\ \A v \in Page : PageFits(v)
  BY DEF TermInv
<1>2. /\ mgr \in Manager /\ Procs \in Seq(Proc) /\ mgr.procs = Procs /\ i \in 1..Len(Procs)
      /\ mgr.ctl \in [Pane -> Nat] /\ Len(Procs) \in Nat
  BY <1>1 DEF TermTypeOK, Manager, Procs
<1>3. PICK c \in Proc : c = Procs[i] /\ c.st = "waits" /\ c.pane \in Pane /\ c.subs \in SUBSET Page
  <2>1. Procs[i] \in Proc
    BY <1>2
  <2>. QED
    BY <2>1 DEF Frame, Proc
<1>4. PICK d \in Proc : /\ d = [c EXCEPT !.st = "live"] /\ d.st = "live" /\ d.pane = c.pane
                        /\ d.subs = c.subs /\ d.ending = c.ending /\ d.opener = c.opener
  <2>1. PICK d : d = [c EXCEPT !.st = "live"]
    OBVIOUS
  <2>. QED
    BY <2>1 DEF Proc
<1>5. mgr' = [mgr EXCEPT !.procs = [Procs EXCEPT ![i] = d]]
  BY <1>2, <1>3, <1>4 DEF Frame
<1>6. PICK ps : ps = [Procs EXCEPT ![i] = d]
  OBVIOUS
<1>7. /\ ps \in Seq(Proc) /\ Len(ps) = Len(Procs) /\ ps[i] = d
      /\ \A j \in 1..Len(Procs) : j # i => ps[j] = Procs[j]
  BY <1>2, <1>4, <1>6, ExceptSeq
<1>8. mgr' \in Manager /\ mgr'.procs = ps /\ Procs' = ps /\ mgr'.ctl = mgr.ctl
  BY <1>2, <1>5, <1>7, <1>6 DEF Manager, Procs
<1>9. \A j \in 1..Len(Procs) :
        /\ ps[j].pane = Procs[j].pane /\ ps[j].subs = Procs[j].subs /\ ps[j].opener = Procs[j].opener
        /\ ps[j].ending = Procs[j].ending
        /\ ps[j].st = "over" <=> Procs[j].st = "over"
        /\ ps[j].st = "waits" => Procs[j].st = "waits"
  BY <1>3, <1>4, <1>7
<1>10. /\ up' = up /\ reach' = reach /\ shows' = shows /\ key' = key /\ failed' = failed
      /\ pending' = pending
      /\ Tell(ToEach(Procs[i].subs, <<"frame", Procs[i].pane>>))
  BY DEF Frame, pageVars
<1>11. PICK m \in Message : m = <<"frame", c.pane>>
  BY <1>3, Messages
<1>12. PICK ms : /\ ms = ToEach(c.subs, m) /\ Tell(ms)
                 /\ \A v \in Page : IF v \in c.subs THEN ms[v] = <<m>> ELSE ms[v] = <<>>
  BY <1>3, <1>10, <1>11 DEF ToEach
<1>13. \A v \in Page : ms[v] \in Seq(Message)
  <2>1. <<>> \in Seq(Message) /\ <<m>> \in Seq(Message)
    OBVIOUS
  <2>. QED
    BY <1>12, <2>1
<1>14. /\ inbox' \in [Page -> Seq(Message)]
       /\ \A v \in Page : inbox'[v] = IF v \in c.subs THEN Append(inbox[v], m) ELSE inbox[v]
  BY <1>1, <1>12, <1>13, Tells
<1>15. TermTypeOK'
  BY <1>1, <1>8, <1>10, <1>14 DEF TermTypeOK, Manager
<1>16. Mapped(mgr')
  BY <1>1, <1>2, <1>7, <1>8, <1>9 DEF Mapped
<1>17. \A p \in Pane : SubsIn(mgr', p) = SubsIn(mgr, p)
  BY <1>1, <1>2, <1>7, <1>8, <1>9 DEF Mapped, SubsIn
<1>18. Opened'
  BY <1>1, <1>7, <1>8, <1>9, <1>10 DEF Opened
<1>19. Down'
  BY <1>1, <1>8, <1>10 DEF Down
<1>20. Grown
  BY <1>7, <1>8, <1>9 DEF Grown
<1>21. up
  BY <1>1, <1>2, <1>3 DEF Opened
<1>22. ASSUME NEW v \in Page
       PROVE  PageFits(v)'
  <2>1. Same(v) /\ StreamsSame(v)
    BY <1>10, <1>17 DEF Same, StreamsSame
  <2>2. CASE v \notin c.subs
    BY <1>10, <1>14, <1>20, <2>1, <2>2, Elsewhere
  <2>3. CASE v \in c.subs
    <3>1. ~IsEnd(m, pending[v]) /\ m[1] # "containers" /\ m[1] # "failed"
      BY <1>3, <1>11, Messages
    <3>2. inbox'[v] = Append(inbox[v], m)
      BY <1>14, <2>3
    <3>. QED
      BY <1>10, <1>20, <1>21, <2>1, <3>1, <3>2, Told
  <2>. QED
    BY <2>2, <2>3
<1>. QED
  BY <1>15, <1>16, <1>18, <1>19, <1>22 DEF TermInv

(* #pump's end.                                                            *)
LEMMA GoesFits ==
  ASSUME TermInv, NEW i \in DOMAIN Procs, Goes(i)
  PROVE  TermInv'
<1>1. TermTypeOK /\ Mapped(mgr) /\ Opened /\ Down /\ \A v \in Page : PageFits(v)
  BY DEF TermInv
<1>2. /\ mgr \in Manager /\ Procs \in Seq(Proc) /\ mgr.procs = Procs /\ i \in 1..Len(Procs)
      /\ mgr.ctl \in [Pane -> Nat] /\ Len(Procs) \in Nat
  BY <1>1 DEF TermTypeOK, Manager, Procs
<1>3. PICK c \in Proc : /\ c = Procs[i] /\ c.st # "over" /\ c.pane \in Pane /\ c.subs \in SUBSET Page
                        /\ c.opener \in Page /\ c.ending \in BOOLEAN
  <2>1. Procs[i] \in Proc
    BY <1>2
  <2>. QED
    BY <2>1 DEF Goes, Proc
<1>4. PICK d \in Proc : /\ d = [c EXCEPT !.st = "over"] /\ d.st = "over" /\ d.pane = c.pane
  <2>1. PICK d : d = [c EXCEPT !.st = "over"]
    OBVIOUS
  <2>. QED
    BY <2>1 DEF Proc
<1>5. PICK ps : ps = [Procs EXCEPT ![i] = d]
  OBVIOUS
<1>6. /\ ps \in Seq(Proc) /\ Len(ps) = Len(Procs) /\ ps[i] = d
      /\ \A j \in 1..Len(Procs) : j # i => ps[j] = Procs[j]
  BY <1>2, <1>4, <1>5, ExceptSeq
<1>7. PICK ctl : ctl = IF c.ending THEN mgr.ctl ELSE [mgr.ctl EXCEPT ![c.pane] = 0]
  OBVIOUS
<1>8. /\ ctl \in [Pane -> Nat]
      /\ \A p \in Pane : ctl[p] = IF ~c.ending /\ p = c.pane THEN 0 ELSE mgr.ctl[p]
  BY <1>2, <1>3, <1>7
<1>9. /\ up' = up /\ reach' = reach /\ shows' = shows /\ key' = key /\ failed' = failed
      /\ pending' = pending
  BY DEF Goes, pageVars
<1>10. PICK opener : opener = IF c.st = "waits" THEN {c.opener} ELSE {}
  OBVIOUS
<1>11. PICK told : told = IF c.ending THEN {} ELSE c.subs \ opener
  OBVIOUS
<1>12. PICK ms : ms = [v \in Page |-> ToEach(opener, <<"failed", i>>)[v] \o ToEach(told, <<"closed", c.pane>>)[v]]
  OBVIOUS
<1>13. mgr' = [procs |-> [Procs EXCEPT ![i].st = "over"], ctl |-> ctl] /\ Tell(ms)
  BY <1>3, <1>7, <1>10, <1>11, <1>12 DEF Goes
<1>14. mgr' \in Manager /\ mgr'.procs = ps /\ Procs' = ps /\ mgr'.ctl = ctl
  <2>1. [Procs EXCEPT ![i].st = "over"] = ps
    BY <1>2, <1>3, <1>4, <1>5
  <2>2. mgr' = [procs |-> ps, ctl |-> ctl]
    BY <1>13, <2>1
  <2>. QED
    BY <1>6, <1>8, <2>2 DEF Manager, Procs
<1>15. PICK fm \in Message : fm = <<"failed", i>>
  <2>1. i \in Nat
    BY <1>2
  <2>2. <<"failed", i>> \in Message
    BY <2>1, Messages
  <2>. QED
    BY <2>2
<1>16. PICK cm \in Message : cm = <<"closed", c.pane>>
  BY <1>3, Messages
<1>17. \A v \in Page : /\ v \in opener => ms[v] = <<fm>> /\ v \notin told
                       /\ v \in told => ms[v] = <<cm>>
                       /\ v \notin opener /\ v \notin told => ms[v] = <<>>
  <2>1. \A v \in Page : v \in opener => v \notin told
    BY <1>11
  <2>2. \A v \in Page : ms[v] = ToEach(opener, fm)[v] \o ToEach(told, cm)[v]
    BY <1>12, <1>15, <1>16
  <2>3. \A v \in Page : /\ ToEach(opener, fm)[v] = IF v \in opener THEN <<fm>> ELSE <<>>
                        /\ ToEach(told, cm)[v] = IF v \in told THEN <<cm>> ELSE <<>>
    BY DEF ToEach
  <2>4. <<fm>> \o <<>> = <<fm>> /\ <<>> \o <<cm>> = <<cm>> /\ <<>> \o <<>> = <<>>
    <3>1. <<fm>> \in Seq(Message) /\ <<cm>> \in Seq(Message) /\ <<>> \in Seq(Message)
      OBVIOUS
    <3>. QED
      BY <3>1, ConcatEmptySeq
  <2>. QED
    BY <2>1, <2>2, <2>3, <2>4
<1>18. \A v \in Page : ms[v] \in Seq(Message)
  <2>1. <<>> \in Seq(Message) /\ <<fm>> \in Seq(Message) /\ <<cm>> \in Seq(Message)
    OBVIOUS
  <2>. QED
    BY <1>17, <2>1
<1>19. /\ inbox' \in [Page -> Seq(Message)]
       /\ \A v \in Page : /\ v \in opener => inbox'[v] = Append(inbox[v], fm)
                          /\ v \in told => inbox'[v] = Append(inbox[v], cm)
                          /\ v \notin opener /\ v \notin told => inbox'[v] = inbox[v]
  <2>1. /\ inbox' \in [Page -> Seq(Message)]
        /\ \A v \in Page : /\ ms[v] = <<>> => inbox'[v] = inbox[v]
                           /\ \A m \in Message : ms[v] = <<m>> => inbox'[v] = Append(inbox[v], m)
    BY <1>1, <1>13, <1>18, Tells
  <2>. QED
    BY <1>17, <2>1
<1>20. TermTypeOK'
  BY <1>1, <1>9, <1>14, <1>19 DEF TermTypeOK, Manager
<1>21. ~c.ending => mgr.ctl[c.pane] = i
  BY <1>1, <1>2, <1>3 DEF Mapped
<1>22. \A p \in Pane : mgr.ctl[p] = i => p = c.pane /\ ~c.ending
  BY <1>1, <1>2, <1>3 DEF Mapped
<1>23. Mapped(mgr')
  <2>1. ASSUME NEW p \in Pane, ctl[p] # 0
        PROVE  /\ ctl[p] \in 1..Len(ps) /\ ps[ctl[p]].pane = p
               /\ ps[ctl[p]].st # "over" /\ ~ps[ctl[p]].ending
    <3>1. ctl[p] = mgr.ctl[p] /\ mgr.ctl[p] # i
      BY <1>8, <1>22, <2>1
    <3>2. PICK j : j = mgr.ctl[p] /\ j = ctl[p] /\ j # i
      BY <3>1
    <3>3. j \in 1..Len(Procs) /\ Procs[j].pane = p /\ Procs[j].st # "over" /\ ~Procs[j].ending
      <4>1. mgr.ctl[p] # 0
        BY <2>1, <3>2
      <4>2. /\ mgr.ctl[p] \in 1..Len(mgr.procs) /\ mgr.procs[mgr.ctl[p]].pane = p
            /\ mgr.procs[mgr.ctl[p]].st # "over" /\ ~mgr.procs[mgr.ctl[p]].ending
        BY <1>1, <4>1 DEF Mapped
      <4>. QED
        BY <1>2, <3>2, <4>2
    <3>. QED
      BY <1>6, <3>2, <3>3
  <2>2. ASSUME NEW j \in 1..Len(ps), ps[j].st # "over", ~ps[j].ending
        PROVE  ctl[ps[j].pane] = j
    <3>1. j # i /\ j \in 1..Len(Procs)
      BY <1>4, <1>6, <2>2
    <3>2. j # i /\ ps[j] = Procs[j] /\ Procs[j] \in Proc
      BY <1>2, <1>6, <3>1
    <3>3. mgr.ctl[Procs[j].pane] = j /\ Procs[j].pane \in Pane
      BY <1>1, <1>2, <1>6, <2>2, <3>2 DEF Mapped, Proc
    <3>4. ~c.ending => Procs[j].pane # c.pane
      BY <1>21, <3>2, <3>3
    <3>. QED
      BY <1>8, <3>2, <3>3, <3>4
  <2>. QED
    BY <1>14, <2>1, <2>2 DEF Mapped
<1>24. ASSUME NEW p \in Pane
       PROVE  SubsIn(mgr', p) = IF ~c.ending /\ p = c.pane THEN {} ELSE SubsIn(mgr, p)
  <2>1. CASE ~c.ending /\ p = c.pane
    BY <1>8, <1>14, <2>1 DEF SubsIn
  <2>2. CASE ~(~c.ending /\ p = c.pane)
    <3>1. PICK j : j = mgr.ctl[p] /\ ctl[p] = j /\ j # i
      BY <1>8, <1>22, <2>2
    <3>2. j # 0 => j \in 1..Len(Procs)
      BY <1>1, <1>2, <3>1 DEF Mapped
    <3>3. j # 0 => ps[j] = Procs[j]
      BY <1>6, <3>1, <3>2
    <3>. QED
      BY <1>2, <1>14, <2>2, <3>1, <3>3 DEF SubsIn
  <2>. QED
    BY <2>1, <2>2
<1>25. Opened'
  <2>1. \A j \in 1..Len(ps) : ps[j].st = "waits" => j # i /\ j \in 1..Len(Procs) /\ ps[j] = Procs[j]
    BY <1>4, <1>6
  <2>. QED
    BY <1>1, <1>9, <1>14, <2>1 DEF Opened
<1>26. Down'
  BY <1>1, <1>8, <1>9, <1>14 DEF Down
<1>27. Grown
  <2>1. \A j \in 1..Len(Procs) : Procs[j].st = "over" => ps[j].st = "over"
    BY <1>4, <1>6
  <2>. QED
    BY <1>2, <1>6, <1>14, <2>1 DEF Grown
<1>28. \A v \in c.subs : ~c.ending =>
         /\ up /\ v \in SubsIn(mgr, c.pane) /\ key[v] = c.pane /\ c.pane # None
         /\ \A p \in Pane : v \notin SubsIn(mgr', p)
  <2>1. SUFFICES ASSUME NEW v \in c.subs, ~c.ending
                 PROVE  /\ up /\ v \in SubsIn(mgr, c.pane) /\ key[v] = c.pane /\ c.pane # None
                        /\ \A p \in Pane : v \notin SubsIn(mgr', p)
    OBVIOUS
  <2>2. mgr.ctl[c.pane] = i /\ i # 0 /\ v \in Page /\ c.pane # None
    BY <1>2, <1>3, <1>21, <2>1
  <2>3. up /\ v \in SubsIn(mgr, c.pane)
    BY <1>1, <1>2, <1>3, <2>2 DEF Down, SubsIn
  <2>4. key[v] = c.pane /\ \A p \in Pane : v \in SubsIn(mgr, p) => key[v] = p
    BY <1>1, <1>3, <2>2, <2>3 DEF PageFits
  <2>5. \A p \in Pane : v \notin SubsIn(mgr', p)
    BY <1>24, <2>1, <2>4
  <2>. QED
    BY <2>2, <2>3, <2>4, <2>5
<1>29. \A v \in Page : c.ending \/ v \notin c.subs => StreamsSame(v)
  <2>1. ASSUME NEW v \in Page, c.ending \/ v \notin c.subs, NEW p \in Pane
        PROVE  v \in SubsIn(mgr', p) <=> v \in SubsIn(mgr, p)
    <3>1. CASE ~c.ending /\ p = c.pane
      <4>1. SubsIn(mgr, p) = c.subs
        BY <1>2, <1>3, <1>21, <3>1 DEF SubsIn
      <4>. QED
        BY <1>24, <2>1, <3>1, <4>1
    <3>2. CASE ~(~c.ending /\ p = c.pane)
      BY <1>24, <3>2
    <3>. QED
      BY <3>1, <3>2
  <2>. QED
    BY <2>1 DEF StreamsSame
<1>30. ASSUME NEW v \in Page
       PROVE  PageFits(v)'
  <2>1. Same(v)
    BY <1>9 DEF Same
  <2>2. CASE v \in opener
    <3>1. c.st = "waits" /\ v = c.opener /\ inbox'[v] = Append(inbox[v], fm)
      BY <1>10, <1>19, <2>2
    <3>2. /\ up
          /\ v \in c.subs => i \in pending[v]
          /\ i \in pending[v] => v \in c.subs /\ ~c.ending
      BY <1>1, <1>2, <1>3, <3>1 DEF Opened
    <3>3. /\ fm[1] = "failed" /\ fm[2] \in 1..Len(Procs') /\ Procs'[fm[2]].st = "over"
          /\ IsEnd(fm, pending[v]) <=> i \in pending[v]
      <4>1. fm[1] = "failed" /\ fm[2] = i
        BY <1>15
      <4>. QED
        BY <1>2, <1>4, <1>6, <1>14, <4>1 DEF IsEnd
    <3>4. fm[1] # "closed" /\ fm[1] # "containers"
      BY <3>3
    <3>5. CASE i \in pending[v]
      <4>1. /\ v \in SubsIn(mgr, key[v]) /\ key[v] # None
            /\ \A p \in Pane : v \notin SubsIn(mgr', p)
        BY <1>28, <3>2, <3>5
      <4>. QED
        BY <1>9, <1>27, <2>1, <3>1, <3>2, <3>3, <3>5, <3>4, <4>1, Told
    <3>6. CASE i \notin pending[v]
      <4>1. StreamsSame(v)
        BY <1>29, <3>2, <3>6
      <4>2. up
        BY <1>1, <1>2, <1>3, <3>1 DEF Opened
      <4>. QED
        BY <1>9, <1>27, <2>1, <3>1, <3>3, <3>6, <3>4, <4>1, <4>2, Told
    <3>. QED
      BY <3>5, <3>6
  <2>3. CASE v \in told
    <3>1. ~c.ending /\ v \in c.subs /\ inbox'[v] = Append(inbox[v], cm)
      BY <1>11, <1>19, <2>3
    <3>2. cm[1] = "closed" /\ cm[2] = c.pane /\ IsEnd(cm, pending[v])
      BY <1>16 DEF IsEnd
    <3>3. /\ up /\ v \in SubsIn(mgr, key[v]) /\ key[v] = c.pane /\ key[v] # None
          /\ \A p \in Pane : v \notin SubsIn(mgr', p)
      BY <1>28, <3>1
    <3>. QED
      BY <1>9, <1>27, <2>1, <3>1, <3>2, <3>3, Told
  <2>4. CASE v \notin opener /\ v \notin told
    <3>1. c.ending \/ v \notin c.subs
      BY <1>11, <2>4
    <3>2. inbox'[v] = inbox[v] /\ StreamsSame(v)
      BY <1>19, <1>29, <2>4, <3>1
    <3>. QED
      BY <1>9, <1>27, <2>1, <3>2, Elsewhere
  <2>. QED
    BY <2>2, <2>3, <2>4
<1>. QED
  BY <1>20, <1>23, <1>25, <1>26, <1>30 DEF TermInv

-----------------------------------------------------------------------------
(* The container.                                                          *)

(* The panes a page is told of, in whatever order.                         *)
LEMMA Listed ==
  ASSUME NEW S, S \subseteq Pane
  PROVE  SetToSeq(S) \in Seq(Pane)
<1>1. IsFiniteSet(S)
  BY FS_Subset
<1>2. Cardinality(S) \in Nat /\ ExistsBijection(1..Cardinality(S), S)
  BY <1>1, FS_CardinalityType
<1>3. \E f \in [1..Cardinality(S) -> S] : IsInjective(f)
  BY <1>2 DEF ExistsBijection, Bijection, Injection
<1>4. SetToSeq(S) \in [1..Cardinality(S) -> S]
  BY <1>3 DEF SetToSeq
<1>5. SetToSeq(S) \in [1..Cardinality(S) -> Pane]
  BY <1>4
<1>. QED
  BY <1>2, <1>5

(* A page hears that its panes are closed, and then of the container.      *)
LEMMA StopComes ==
  ASSUME NEW q \in Seq(Message), NEW panes \in Seq(Pane), NEW procs, FailedIn(q, procs)
  PROVE  LET r == q \o ([n \in DOMAIN panes |-> <<"closed", panes[n]>>] \o <<Stop>>) IN
         /\ [n \in DOMAIN panes |-> <<"closed", panes[n]>>] \o <<Stop>> \in Seq(Message)
         /\ r \in Seq(Message) /\ FailedIn(r, procs) /\ StopAhead(r)
<1>1. PICK cs : cs = [n \in DOMAIN panes |-> <<"closed", panes[n]>>]
  OBVIOUS
<1>2. cs \in Seq(Message) /\ \A n \in DOMAIN cs : cs[n][1] = "closed"
  <2>1. DOMAIN panes = 1..Len(panes) /\ Len(panes) \in Nat /\ \A n \in 1..Len(panes) : panes[n] \in Pane
    OBVIOUS
  <2>2. \A n \in 1..Len(panes) : <<"closed", panes[n]>> \in Message
    BY <2>1, Messages
  <2>3. cs \in [1..Len(panes) -> Message]
    BY <1>1, <2>1, <2>2
  <2>4. cs \in Seq(Message)
    BY <2>1, <2>3
  <2>5. \A n \in DOMAIN cs : cs[n] = <<"closed", panes[n]>>
    BY <1>1
  <2>. QED
    BY <2>4, <2>5
<1>3. PICK b : b = q \o cs
  OBVIOUS
<1>4. b \in Seq(Message) /\ FailedIn(b, procs)
  <2>1. b \in Seq(Message) /\ Len(b) = Len(q) + Len(cs)
        /\ \A n \in 1..Len(b) : b[n] = IF n <= Len(q) THEN q[n] ELSE cs[n - Len(q)]
    BY <1>2, <1>3, ConcatProperties
  <2>2. DOMAIN b = 1..Len(b) /\ DOMAIN q = 1..Len(q) /\ DOMAIN cs = 1..Len(cs)
        /\ Len(q) \in Nat /\ Len(cs) \in Nat
    BY <1>2, <2>1
  <2>3. ASSUME NEW n \in DOMAIN b, b[n][1] = "failed"
        PROVE  b[n][2] \in 1..Len(procs) /\ procs[b[n][2]].st = "over"
    <3>1. n \in DOMAIN q /\ b[n] = q[n]
      <4>1. CASE n <= Len(q)
        BY <2>1, <2>2, <4>1
      <4>2. CASE ~(n <= Len(q))
        <5>1. n - Len(q) \in DOMAIN cs /\ b[n] = cs[n - Len(q)]
          BY <2>1, <2>2, <4>2
        <5>. QED
          BY <1>2, <2>3, <5>1
      <4>. QED
        BY <4>1, <4>2
    <3>. QED
      BY <2>3, <3>1 DEF FailedIn
  <2>. QED
    BY <2>1, <2>3 DEF FailedIn
<1>5. Stop \in Message /\ Stop # Connect /\ <<Stop>> \in Seq(Message)
  BY Messages
<1>6. q \o (cs \o <<Stop>>) = Append(b, Stop) /\ cs \o <<Stop>> \in Seq(Message)
  <2>1. (q \o cs) \o <<Stop>> = q \o (cs \o <<Stop>>)
    BY <1>2, <1>5, ConcatAssociative
  <2>2. b \o <<Stop>> = Append(b, Stop)
    BY <1>4, <1>5, QueueJoins
  <2>3. cs \o <<Stop>> \in Seq(Message)
    BY <1>2, <1>5, ConcatProperties
  <2>. QED
    BY <1>3, <2>1, <2>2, <2>3
<1>7. Append(b, Stop) \in Seq(Message) /\ StopAhead(Append(b, Stop)) /\ FailedIn(Append(b, Stop), procs)
  <2>1. /\ Append(b, Stop) \in Seq(Message) /\ Append(b, Stop)[Len(b) + 1] = Stop
        /\ DOMAIN b = 1..Len(b) /\ Len(b) \in Nat /\ DOMAIN Append(b, Stop) = 1..Len(b) + 1
        /\ \A n \in 1..Len(b) : Append(b, Stop)[n] = b[n]
    BY <1>4, <1>5, QueueJoins
  <2>2. StopAhead(Append(b, Stop))
    BY <2>1 DEF StopAhead
  <2>3. Stop[1] # "failed"
    BY DEF Stop
  <2>4. FailedIn(Append(b, Stop), procs)
    BY <1>4, <2>1, <2>3 DEF FailedIn
  <2>. QED
    BY <2>1, <2>2, <2>4
<1>. QED
  BY <1>1, <1>6, <1>7

LEMMA ContainerStopsFits ==
  ASSUME TermInv, ~Races, ContainerStops
  PROVE  TermInv'
<1>1. TermTypeOK /\ \A v \in Page : PageFits(v)
  BY DEF TermInv
<1>2. /\ mgr \in Manager /\ Procs \in Seq(Proc) /\ mgr.procs = Procs /\ Len(Procs) \in Nat
      /\ DOMAIN Procs = 1..Len(Procs)
  BY <1>1 DEF TermTypeOK, Manager, Procs
<1>3. PICK ps \in Seq(Proc) :
        /\ ps = Ending(mgr, Pane) /\ Len(ps) = Len(mgr.procs)
        /\ \A i \in 1..Len(mgr.procs) :
             /\ ps[i].pane = mgr.procs[i].pane /\ ps[i].subs = mgr.procs[i].subs
             /\ ps[i].opener = mgr.procs[i].opener /\ ps[i].st = mgr.procs[i].st
             /\ IF mgr.procs[i].pane \in Pane /\ mgr.ctl[mgr.procs[i].pane] = i
                THEN ps[i].ending = TRUE ELSE ps[i].ending = mgr.procs[i].ending
  BY <1>2, EndingFits
<1>4. /\ ps = Ending(mgr, Pane) /\ Len(ps) = Len(Procs)
      /\ \A i \in 1..Len(Procs) :
           /\ ps[i].pane = Procs[i].pane /\ ps[i].st = Procs[i].st
           /\ IF Procs[i].pane \in Pane /\ mgr.ctl[Procs[i].pane] = i
              THEN ps[i].ending = TRUE ELSE ps[i].ending = Procs[i].ending
  BY <1>2, <1>3
<1>5. PICK ctl : ctl = [p \in Pane |-> 0]
  OBVIOUS
<1>6. ctl \in [Pane -> Nat] /\ \A p \in Pane : ctl[p] = 0
  BY <1>5
<1>7. mgr' \in Manager /\ mgr'.procs = ps /\ Procs' = ps /\ mgr'.ctl = ctl
  <2>1. mgr' = [procs |-> ps, ctl |-> ctl]
    BY <1>4, <1>5 DEF ContainerStops
  <2>. QED
    BY <1>4, <1>6, <2>1 DEF Manager, Procs
<1>8. /\ up' = FALSE /\ reach' = reach /\ shows' = shows /\ key' = key /\ failed' = failed
      /\ pending' = pending
  BY DEF ContainerStops, pageVars
<1>9. PICK on : on = [v \in Page |-> SetToSeq({p \in Pane : v \in Subs(p)})]
  OBVIOUS
<1>10. PICK ms : ms = [v \in Page |-> [n \in DOMAIN on[v] |-> <<"closed", on[v][n]>>] \o <<Stop>>]
  OBVIOUS
<1>11. Tell(ms)
  <2>1. Tell([v \in Page |->
               LET panes == SetToSeq({p \in Pane : v \in Subs(p)}) IN
               [n \in DOMAIN panes |-> <<"closed", panes[n]>>] \o <<<<"containers", FALSE>>>>])
    BY DEF ContainerStops
  <2>2. ms = [v \in Page |->
               LET panes == SetToSeq({p \in Pane : v \in Subs(p)}) IN
               [n \in DOMAIN panes |-> <<"closed", panes[n]>>] \o <<<<"containers", FALSE>>>>]
    BY <1>9, <1>10 DEF Stop
  <2>. QED
    BY <2>1, <2>2
<1>12. ASSUME NEW v \in Page
       PROVE  /\ ms[v] \in Seq(Message)
              /\ inbox[v] \o ms[v] \in Seq(Message)
              /\ FailedIn(inbox[v] \o ms[v], Procs) /\ StopAhead(inbox[v] \o ms[v])
  <2>1. on[v] \in Seq(Pane)
    BY <1>9, Listed
  <2>2. inbox[v] \in Seq(Message) /\ FailedIn(inbox[v], Procs)
    BY <1>1, Types DEF PageFits
  <2>3. ms[v] = [n \in DOMAIN on[v] |-> <<"closed", on[v][n]>>] \o <<Stop>>
    BY <1>10
  <2>. QED
    BY <2>1, <2>2, <2>3, StopComes
<1>13. /\ inbox' \in [Page -> Seq(Message)]
       /\ \A v \in Page : inbox'[v] = inbox[v] \o ms[v]
  BY <1>1, <1>11, <1>12, Tells
<1>14. TermTypeOK'
  BY <1>1, <1>7, <1>8, <1>13 DEF TermTypeOK, Manager
<1>15. \A i \in 1..Len(Procs) : Procs[i].st # "waits"
  <2>1. \A i \in 1..Len(Procs) : Procs[i] \in Proc
    BY <1>2
  <2>2. \A i \in 1..Len(Procs) : Procs[i].pane \in Pane
    BY <2>1 DEF Proc
  <2>3. \A p \in Pane : Settled(p)
    BY DEF ContainerStops
  <2>. QED
    BY <1>2, <2>2, <2>3 DEF Settled
<1>16. Opened'
  BY <1>4, <1>7, <1>15 DEF Opened
<1>17. Mapped(mgr')
  <2>1. ASSUME NEW i \in 1..Len(ps), ps[i].st # "over", ~ps[i].ending
        PROVE  FALSE
    <3>1. Procs[i] \in Proc /\ i \in 1..Len(Procs)
      BY <1>2, <1>4
    <3>2. Procs[i].pane \in Pane /\ Procs[i].st # "over"
      BY <1>4, <2>1, <3>1 DEF Proc
    <3>3. mgr.ctl[Procs[i].pane] # i /\ ~Procs[i].ending
      BY <1>4, <2>1, <3>1, <3>2
    <3>4. Mapped(mgr)
      BY DEF TermInv
    <3>. QED
      BY <1>2, <3>1, <3>2, <3>3, <3>4 DEF Mapped
  <2>. QED
    BY <1>6, <1>7, <2>1 DEF Mapped
<1>18. \A p \in Pane : SubsIn(mgr', p) = {}
  BY <1>6, <1>7 DEF SubsIn
<1>19. Down'
  BY <1>6, <1>7 DEF Down
<1>20. ASSUME NEW v \in Page
       PROVE  PageFits(v)'
  <2>1. pending'[v] \subseteq 1..Len(Procs') /\ (key'[v] # None => v \in reach' /\ v \notin failed')
    BY <1>1, <1>4, <1>7, <1>8 DEF PageFits
  <2>2. FailedIn(inbox'[v], Procs')
    <3>1. inbox'[v] \in Seq(Message) /\ FailedIn(inbox'[v], Procs)
      BY <1>12, <1>13
    <3>2. Len(Procs) <= Len(ps) /\ \A i \in 1..Len(Procs) : Procs[i].st = "over" => ps[i].st = "over"
      BY <1>2, <1>4
    <3>. QED
      <4>1. FailedIn(inbox'[v], ps)
        BY <1>2, <3>1, <3>2, FailedStays
      <4>. QED
        BY <1>7, <4>1
  <2>3. StopIn(inbox'[v], v \in reach')
    BY <1>12, <1>13 DEF StopIn
  <2>. QED
    BY <1>8, <1>18, <2>1, <2>2, <2>3 DEF PageFits
<1>. QED
  BY <1>14, <1>16, <1>17, <1>19, <1>20 DEF TermInv

(* A page that has heard everything while it was down has nothing open.    *)
LEMMA HeardDown ==
  ASSUME TermInv, ~up, NEW v \in Page, inbox[v] = <<>>
  PROVE  v \notin reach /\ key[v] = None
<1>1. PageFits(v)
  BY DEF TermInv
<1>2. ~StopAhead(<<>>)
  BY DEF StopAhead
<1>. QED
  BY <1>1, <1>2 DEF PageFits, StopIn

LEMMA ContainerConnectsFits ==
  ASSUME TermInv, ~Races, ContainerConnects
  PROVE  TermInv'
<1>1. TermTypeOK /\ Mapped(mgr) /\ Opened /\ Down /\ \A v \in Page : PageFits(v)
  BY DEF TermInv
<1>2. /\ up' = TRUE /\ reach' = reach /\ shows' = shows /\ key' = key /\ failed' = failed
      /\ pending' = pending /\ mgr' = mgr /\ ~up /\ \A v \in Page : inbox[v] = <<>>
  BY DEF ContainerConnects, pageVars, Heard
<1>3. PICK ms : ms = ToEach(Page, Connect)
  OBVIOUS
<1>4. Tell(ms) /\ \A v \in Page : ms[v] = <<Connect>> /\ ms[v] \in Seq(Message)
  <2>1. <<Connect>> \in Seq(Message)
    BY Messages
  <2>2. \A v \in Page : ms[v] = <<Connect>>
    BY <1>3 DEF ToEach
  <2>. QED
    BY <1>3, <2>1, <2>2 DEF ContainerConnects, Connect
<1>5. /\ inbox' \in [Page -> Seq(Message)]
      /\ \A v \in Page : inbox'[v] = <<Connect>>
  <2>1. \A v \in Page : inbox'[v] = inbox[v] \o ms[v]
    BY <1>1, <1>4, Tells
  <2>2. <<>> \o <<Connect>> = <<Connect>>
    BY Messages
  <2>. QED
    BY <1>1, <1>2, <1>4, <2>1, <2>2, Tells
<1>6. TermTypeOK'
  BY <1>1, <1>2, <1>5 DEF TermTypeOK
<1>7. Opened'
  BY <1>1, <1>2 DEF Opened, Procs
<1>8. Mapped(mgr') /\ Down'
  BY <1>1, <1>2 DEF Down
<1>9. ASSUME NEW v \in Page
      PROVE  PageFits(v)'
  <2>1. pending'[v] \subseteq 1..Len(Procs') /\ (key'[v] # None => v \in reach' /\ v \notin failed')
        /\ (\A p \in Pane : v \in SubsIn(mgr', p) => key'[v] = p)
    BY <1>1, <1>2 DEF PageFits, Procs
  <2>2. FailedIn(inbox'[v], Procs')
    <3>1. Connect[1] # "failed"
      BY DEF Connect
    <3>2. \A n \in DOMAIN <<Connect>> : <<Connect>>[n] = Connect
      OBVIOUS
    <3>. QED
      BY <1>5, <3>1, <3>2 DEF FailedIn
  <2>3. key[v] = None
    BY <1>2, HeardDown
  <2>4. RunsIn(inbox'[v], pending'[v], key'[v], v \in SubsIn(mgr', key'[v]))
    <3>1. RunsIn(<<Connect>>, pending[v], None, TRUE)
      BY RunsNone
    <3>. QED
      BY <1>2, <1>5, <2>3, <3>1 DEF RunsIn
  <2>. QED
    BY <1>2, <2>1, <2>2, <2>4 DEF PageFits
<1>. QED
  BY <1>6, <1>7, <1>8, <1>9 DEF TermInv

-----------------------------------------------------------------------------
(* The pages.                                                              *)

(* One page moves alone, and leaves the processes as they are.             *)
LEMMA AloneFits ==
  ASSUME TermInv, NEW v \in Page, TermTypeOK', UNCHANGED <<mgr, up>>,
         \A u \in Page : u # v => inbox'[u] = inbox[u] /\ Same(u),
         \A i \in 1..Len(Procs) : Procs[i].st = "waits" =>
           (i \in pending'[Procs[i].opener] <=> i \in pending[Procs[i].opener]),
         pending'[v] \subseteq 1..Len(Procs),
         FailedIn(inbox'[v], Procs),
         key'[v] # None => key'[v] = key[v] /\ v \in reach' /\ v \notin failed',
         key'[v] = None /\ up => \A p \in Pane : v \notin SubsIn(mgr, p),
         ~up => StopIn(inbox'[v], v \in reach'),
         up => RunsIn(inbox'[v], pending'[v], key'[v], v \in SubsIn(mgr, key'[v]))
  PROVE  TermInv'
<1>1. TermTypeOK /\ Mapped(mgr) /\ Opened /\ Down /\ \A u \in Page : PageFits(u)
  BY DEF TermInv
<1>2. mgr' = mgr /\ up' = up /\ Procs' = Procs /\ mgr \in Manager /\ Len(Procs) \in Nat
  BY <1>1 DEF TermTypeOK, Manager, Procs
<1>3. Mapped(mgr') /\ Down'
  BY <1>1, <1>2 DEF Down
<1>4. Opened'
  BY <1>1, <1>2 DEF Opened
<1>5. Grown /\ \A u \in Page : StreamsSame(u)
  BY <1>2 DEF Grown, StreamsSame
<1>6. ASSUME NEW u \in Page, u # v
      PROVE  PageFits(u)'
  BY <1>2, <1>5, <1>6, Elsewhere
<1>7. PageFits(v)'
  <2>1. ASSUME NEW p \in Pane, v \in SubsIn(mgr, p)
        PROVE  key'[v] = p
    <3>1. up
      BY <1>1, <2>1 DEF Down, SubsIn
    <3>2. key[v] = p
      BY <1>1, <2>1 DEF PageFits
    <3>. QED
      BY <2>1, <3>1, <3>2
  <2>. QED
    BY <1>2, <2>1 DEF PageFits
<1>. QED
  BY <1>3, <1>4, <1>6, <1>7 DEF TermInv

(* What reading does to a page, before it acts on the message.             *)
LEMMA Reading ==
  ASSUME TermInv, NEW v \in Page, inbox[v] # <<>>, Read(v)
  PROVE  /\ inbox[v] \in Seq(Message) /\ Head(inbox[v]) \in Message /\ Tail(inbox[v]) \in Seq(Message)
         /\ inbox' \in [Page -> Seq(Message)] /\ inbox'[v] = Tail(inbox[v])
         /\ \A u \in Page : u # v => inbox'[u] = inbox[u]
         /\ FailedIn(inbox'[v], Procs)
<1>1. TermTypeOK /\ PageFits(v)
  BY DEF TermInv
<1>2. inbox[v] \in Seq(Message) /\ Procs \in Seq(Proc) /\ Len(Procs) \in Nat /\ FailedIn(inbox[v], Procs)
  BY <1>1, Types DEF PageFits
<1>3. Head(inbox[v]) \in Message /\ Tail(inbox[v]) \in Seq(Message)
  BY <1>2, Reads
<1>4. /\ inbox' \in [Page -> Seq(Message)] /\ inbox'[v] = Tail(inbox[v])
      /\ \A u \in Page : u # v => inbox'[u] = inbox[u]
  BY <1>1, <1>3 DEF Read, TermTypeOK
<1>5. FailedIn(Tail(inbox[v]), Procs)
  BY <1>2, FailedStays
<1>. QED
  BY <1>2, <1>3, <1>4, <1>5

(* The message that ends its open, another one, and any while it is down.  *)
LEMMA EndHeard ==
  ASSUME TermInv, up, NEW v \in Page, inbox[v] # <<>>, IsEnd(Head(inbox[v]), pending[v]),
         NEW rest, rest \subseteq pending[v]
  PROVE  /\ key[v] # None
         /\ Head(inbox[v])[1] = "closed" => Head(inbox[v])[2] = key[v]
         /\ \A p \in Pane : v \notin SubsIn(mgr, p)
         /\ \A t \in BOOLEAN : RunsIn(Tail(inbox[v]), rest, None, t)
<1>1. PageFits(v) /\ inbox[v] \in Seq(Message)
  BY Types DEF TermInv
<1>2. RunsIn(inbox[v], pending[v], key[v], v \in SubsIn(mgr, key[v]))
  BY <1>1 DEF PageFits
<1>3. v \notin SubsIn(mgr, key[v])
  <2>1. SUFFICES ASSUME v \in SubsIn(mgr, key[v])
                 PROVE  FALSE
    OBVIOUS
  <2>2. RunsIn(inbox[v], pending[v], key[v], TRUE)
    BY <1>2, <2>1 DEF RunsIn
  <2>. QED
    BY <1>1, <2>2, RunsHeard
<1>4. /\ key[v] # None
      /\ Head(inbox[v])[1] = "closed" => Head(inbox[v])[2] = key[v]
      /\ RunsIn(Tail(inbox[v]), pending[v], None, TRUE)
  <2>1. RunsIn(inbox[v], pending[v], key[v], FALSE)
    BY <1>2, <1>3 DEF RunsIn
  <2>. QED
    BY <1>1, <2>1, RunsHeard
<1>5. \A t \in BOOLEAN : RunsIn(Tail(inbox[v]), rest, None, t)
  BY <1>4, RunsForget
<1>6. \A p \in Pane : v \notin SubsIn(mgr, p)
  BY <1>1, <1>3, <1>4 DEF PageFits
<1>. QED
  BY <1>4, <1>6, <1>5

LEMMA OtherHeard ==
  ASSUME TermInv, up, NEW v \in Page, inbox[v] # <<>>, ~IsEnd(Head(inbox[v]), pending[v])
  PROVE  RunsIn(Tail(inbox[v]), pending[v], key[v], v \in SubsIn(mgr, key[v]))
<1>1. PageFits(v) /\ inbox[v] \in Seq(Message)
  BY Types DEF TermInv
<1>2. RunsIn(inbox[v], pending[v], key[v], v \in SubsIn(mgr, key[v]))
  BY <1>1 DEF PageFits
<1>3. CASE v \in SubsIn(mgr, key[v])
  <2>1. RunsIn(inbox[v], pending[v], key[v], TRUE)
    BY <1>2, <1>3 DEF RunsIn
  <2>2. RunsIn(Tail(inbox[v]), pending[v], key[v], TRUE)
    BY <1>1, <2>1, RunsTail
  <2>. QED
    BY <1>3, <2>2 DEF RunsIn
<1>4. CASE v \notin SubsIn(mgr, key[v])
  <2>1. RunsIn(inbox[v], pending[v], key[v], FALSE)
    BY <1>2, <1>4 DEF RunsIn
  <2>2. RunsIn(Tail(inbox[v]), pending[v], key[v], FALSE)
    BY <1>1, <2>1, RunsTail
  <2>. QED
    BY <1>4, <2>2 DEF RunsIn
<1>. QED
  BY <1>3, <1>4

LEMMA DownHeard ==
  ASSUME TermInv, ~up, NEW v \in Page, inbox[v] # <<>>
  PROVE  /\ Head(inbox[v]) = Connect => StopIn(Tail(inbox[v]), TRUE)
         /\ Head(inbox[v]) = Stop => StopIn(Tail(inbox[v]), FALSE)
         /\ Head(inbox[v]) # Connect /\ Head(inbox[v]) # Stop => StopIn(Tail(inbox[v]), v \in reach)
<1>1. PageFits(v) /\ inbox[v] \in Seq(Message)
  BY Types DEF TermInv
<1>2. StopIn(inbox[v], v \in reach)
  BY <1>1 DEF PageFits
<1>3. CASE v \in reach
  <2>1. StopIn(inbox[v], TRUE)
    BY <1>2, <1>3 DEF StopIn
  <2>. QED
    BY <1>1, <1>3, <2>1, StopReads DEF StopIn
<1>4. CASE v \notin reach
  <2>1. StopIn(inbox[v], FALSE)
    BY <1>2, <1>4 DEF StopIn
  <2>. QED
    BY <1>1, <1>4, <2>1, StopReads DEF StopIn
<1>. QED
  BY <1>3, <1>4

(* onPaneClosed.                                                           *)
LEMMA HearsClosedFits ==
  ASSUME TermInv, NEW v \in Page, HearsClosed(v)
  PROVE  TermInv'
<1>1. TermTypeOK /\ PageFits(v) /\ inbox[v] # <<>> /\ Head(inbox[v])[1] = "closed" /\ Read(v)
  BY DEF TermInv, HearsClosed, Hears
<1>2. /\ inbox[v] \in Seq(Message) /\ Head(inbox[v]) \in Message /\ Tail(inbox[v]) \in Seq(Message)
      /\ inbox' \in [Page -> Seq(Message)] /\ inbox'[v] = Tail(inbox[v])
      /\ \A u \in Page : u # v => inbox'[u] = inbox[u]
      /\ FailedIn(inbox'[v], Procs)
  BY <1>1, Reading
<1>3. /\ UNCHANGED <<mgr, up>> /\ reach' = reach /\ shows' = shows /\ pending' = pending
      /\ IF key[v] = Head(inbox[v])[2]
         THEN key' = [key EXCEPT ![v] = None] /\ failed' = failed \cup {v}
         ELSE key' = key /\ failed' = failed
  BY DEF HearsClosed, Lost
<1>4. /\ key' \in [Page -> Pane \cup {None}] /\ failed' \subseteq Page
      /\ \A u \in Page : u # v => key'[u] = key[u] /\ (u \in failed' <=> u \in failed)
      /\ IF key[v] = Head(inbox[v])[2] THEN key'[v] = None ELSE key'[v] = key[v] /\ failed' = failed
  BY <1>1, <1>3 DEF TermTypeOK
<1>5. TermTypeOK'
  BY <1>1, <1>2, <1>3, <1>4 DEF TermTypeOK
<1>6. \A u \in Page : u # v => inbox'[u] = inbox[u] /\ Same(u)
  BY <1>2, <1>3, <1>4 DEF Same
<1>7. key'[v] # None => key'[v] = key[v] /\ v \in reach' /\ v \notin failed'
  BY <1>1, <1>3, <1>4 DEF PageFits
<1>8. IsEnd(Head(inbox[v]), pending[v])
  BY <1>1 DEF IsEnd
<1>9. ASSUME up
      PROVE  /\ key'[v] = None /\ \A p \in Pane : v \notin SubsIn(mgr, p)
             /\ \A t \in BOOLEAN : RunsIn(Tail(inbox[v]), pending[v], None, t)
  <2>1. PICK rest : rest = pending[v] /\ rest \subseteq pending[v]
    OBVIOUS
  <2>2. /\ Head(inbox[v])[2] = key[v] /\ \A p \in Pane : v \notin SubsIn(mgr, p)
        /\ \A t \in BOOLEAN : RunsIn(Tail(inbox[v]), rest, None, t)
    BY <1>1, <1>8, <1>9, <2>1, EndHeard
  <2>. QED
    BY <1>4, <2>1, <2>2
<1>10. up => RunsIn(inbox'[v], pending'[v], key'[v], v \in SubsIn(mgr, key'[v]))
  <2>1. SUFFICES ASSUME up
                 PROVE  RunsIn(Tail(inbox[v]), pending[v], None, v \in SubsIn(mgr, None))
    BY <1>2, <1>3, <1>9
  <2>2. RunsIn(Tail(inbox[v]), pending[v], None, TRUE)
    BY <1>9, <2>1
  <2>. QED
    BY <2>2 DEF RunsIn
<1>11. ~up => StopIn(inbox'[v], v \in reach')
  <2>1. Head(inbox[v]) # Stop /\ Head(inbox[v]) # Connect
    BY <1>1, <1>2, Messages
  <2>. QED
    BY <1>1, <1>2, <1>3, <2>1, DownHeard DEF StopIn
<1>12. pending'[v] \subseteq 1..Len(Procs)
  BY <1>1, <1>3 DEF PageFits
<1>. QED
  BY <1>2, <1>3, <1>5, <1>6, <1>7, <1>9, <1>10, <1>11, <1>12, AloneFits

(* onTileResult.                                                           *)
LEMMA HearsFailedFits ==
  ASSUME TermInv, NEW v \in Page, HearsFailed(v)
  PROVE  TermInv'
<1>1. TermTypeOK /\ PageFits(v) /\ inbox[v] # <<>> /\ Head(inbox[v])[1] = "failed" /\ Read(v)
  BY DEF TermInv, HearsFailed, Hears
<1>2. /\ inbox[v] \in Seq(Message) /\ Head(inbox[v]) \in Message /\ Tail(inbox[v]) \in Seq(Message)
      /\ inbox' \in [Page -> Seq(Message)] /\ inbox'[v] = Tail(inbox[v])
      /\ \A u \in Page : u # v => inbox'[u] = inbox[u]
      /\ FailedIn(inbox'[v], Procs)
  BY <1>1, Reading
<1>3. PICK i : i = Head(inbox[v])[2]
  OBVIOUS
<1>4. /\ UNCHANGED <<mgr, up>> /\ reach' = reach /\ shows' = shows
      /\ pending' = [pending EXCEPT ![v] = @ \ {i}]
      /\ IF i \in pending[v]
         THEN key' = [key EXCEPT ![v] = None] /\ failed' = failed \cup {v}
         ELSE key' = key /\ failed' = failed
  BY <1>3 DEF HearsFailed, Lost
<1>5. /\ key' \in [Page -> Pane \cup {None}] /\ failed' \subseteq Page
      /\ \A u \in Page : u # v => key'[u] = key[u] /\ (u \in failed' <=> u \in failed)
      /\ IF i \in pending[v] THEN key'[v] = None ELSE key'[v] = key[v] /\ failed' = failed
  BY <1>1, <1>4 DEF TermTypeOK
<1>6. /\ pending' \in [Page -> SUBSET Nat] /\ pending'[v] = pending[v] \ {i}
      /\ \A u \in Page : u # v => pending'[u] = pending[u]
  BY <1>1, <1>4 DEF TermTypeOK
<1>7. TermTypeOK'
  BY <1>1, <1>2, <1>4, <1>5, <1>6 DEF TermTypeOK
<1>8. \A u \in Page : u # v => inbox'[u] = inbox[u] /\ Same(u)
  BY <1>2, <1>4, <1>5, <1>6 DEF Same
<1>9. key'[v] # None => key'[v] = key[v] /\ v \in reach' /\ v \notin failed'
  BY <1>1, <1>4, <1>5 DEF PageFits
<1>10. IsEnd(Head(inbox[v]), pending[v]) <=> i \in pending[v]
  BY <1>1, <1>3 DEF IsEnd
<1>11. i \in 1..Len(Procs) /\ Procs[i].st = "over"
  <2>1. 1 \in DOMAIN inbox[v] /\ Head(inbox[v]) = inbox[v][1]
    BY <1>1, <1>2, Reads
  <2>2. FailedIn(inbox[v], Procs)
    BY <1>1 DEF PageFits
  <2>. QED
    BY <1>1, <1>3, <2>1, <2>2 DEF FailedIn
<1>12. ASSUME NEW j \in 1..Len(Procs), Procs[j].st = "waits"
       PROVE  j \in pending'[Procs[j].opener] <=> j \in pending[Procs[j].opener]
  <2>1. j # i
    BY <1>11, <1>12
  <2>2. Procs[j] \in Proc
    BY <1>1, Types
  <2>3. Procs[j].opener \in Page
    BY <2>2 DEF Proc
  <2>. QED
    BY <1>6, <2>1, <2>3
<1>13. CASE i \in pending[v]
  <2>1. PICK rest : rest = pending[v] \ {i} /\ rest \subseteq pending[v]
    OBVIOUS
  <2>2. ASSUME up
        PROVE  /\ \A p \in Pane : v \notin SubsIn(mgr, p)
               /\ \A t \in BOOLEAN : RunsIn(Tail(inbox[v]), rest, None, t)
    BY <1>1, <1>10, <1>13, <2>1, <2>2, EndHeard
  <2>3. up => RunsIn(inbox'[v], pending'[v], key'[v], v \in SubsIn(mgr, key'[v]))
    <3>1. SUFFICES ASSUME up
                   PROVE  RunsIn(Tail(inbox[v]), rest, None, v \in SubsIn(mgr, None))
      BY <1>2, <1>5, <1>6, <1>13, <2>1
    <3>2. RunsIn(Tail(inbox[v]), rest, None, TRUE)
      BY <2>2, <3>1
    <3>. QED
      BY <3>2 DEF RunsIn
  <2>4. ~up => StopIn(inbox'[v], v \in reach')
    <3>1. Head(inbox[v]) # Stop /\ Head(inbox[v]) # Connect
      BY <1>1, <1>2, Messages
    <3>. QED
      BY <1>1, <1>2, <1>4, <3>1, DownHeard DEF StopIn
  <2>5. pending'[v] \subseteq 1..Len(Procs)
    BY <1>1, <1>6 DEF PageFits
  <2>. QED
    BY <1>2, <1>4, <1>7, <1>8, <1>9, <1>12, <2>2, <2>3, <2>4, <2>5, AloneFits
<1>14. CASE i \notin pending[v]
  <2>1. pending'[v] = pending[v] /\ key'[v] = key[v]
    BY <1>5, <1>6, <1>14
  <2>2. up => RunsIn(inbox'[v], pending'[v], key'[v], v \in SubsIn(mgr, key'[v]))
    <3>1. SUFFICES ASSUME up
                   PROVE  RunsIn(Tail(inbox[v]), pending[v], key[v], v \in SubsIn(mgr, key[v]))
      BY <1>2, <1>4, <2>1
    <3>. QED
      BY <1>1, <1>10, <1>14, <3>1, OtherHeard
  <2>3. ~up => StopIn(inbox'[v], v \in reach')
    <3>1. Head(inbox[v]) # Stop /\ Head(inbox[v]) # Connect
      BY <1>1, <1>2, Messages
    <3>. QED
      BY <1>1, <1>2, <1>4, <3>1, DownHeard DEF StopIn
  <2>4. key'[v] = None => \A p \in Pane : v \notin SubsIn(mgr, p)
    BY <1>1, <2>1 DEF PageFits, TermTypeOK
  <2>5. pending'[v] \subseteq 1..Len(Procs)
    BY <1>1, <2>1 DEF PageFits
  <2>. QED
    BY <1>2, <1>4, <1>7, <1>8, <1>9, <1>12, <2>2, <2>3, <2>4, <2>5, AloneFits
<1>. QED
  BY <1>13, <1>14

(* onFrame.                                                                *)
LEMMA HearsFrameFits ==
  ASSUME TermInv, NEW v \in Page, HearsFrame(v)
  PROVE  TermInv'
<1>1. TermTypeOK /\ PageFits(v) /\ inbox[v] # <<>> /\ Head(inbox[v])[1] = "frame" /\ Read(v)
  BY DEF TermInv, HearsFrame, Hears
<1>2. /\ inbox[v] \in Seq(Message) /\ Head(inbox[v]) \in Message
      /\ inbox' \in [Page -> Seq(Message)] /\ inbox'[v] = Tail(inbox[v])
      /\ \A u \in Page : u # v => inbox'[u] = inbox[u]
      /\ FailedIn(inbox'[v], Procs)
  BY <1>1, Reading
<1>3. /\ UNCHANGED <<mgr, up>> /\ reach' = reach /\ shows' = shows /\ pending' = pending
      /\ key' = key /\ failed' = failed
  BY DEF HearsFrame
<1>4. TermTypeOK'
  BY <1>1, <1>2, <1>3 DEF TermTypeOK
<1>5. \A u \in Page : u # v => inbox'[u] = inbox[u] /\ Same(u)
  BY <1>2, <1>3 DEF Same
<1>6. ~IsEnd(Head(inbox[v]), pending[v])
  BY <1>1 DEF IsEnd
<1>7. up => RunsIn(inbox'[v], pending'[v], key'[v], v \in SubsIn(mgr, key'[v]))
  <2>1. SUFFICES ASSUME up
                 PROVE  RunsIn(Tail(inbox[v]), pending[v], key[v], v \in SubsIn(mgr, key[v]))
    BY <1>2, <1>3
  <2>. QED
    BY <1>1, <1>6, <2>1, OtherHeard
<1>8. ~up => StopIn(inbox'[v], v \in reach')
  <2>1. Head(inbox[v]) # Stop /\ Head(inbox[v]) # Connect
    BY <1>1, <1>2, Messages
  <2>. QED
    BY <1>1, <1>2, <1>3, <2>1, DownHeard DEF StopIn
<1>9. /\ pending'[v] \subseteq 1..Len(Procs)
      /\ key'[v] # None => key'[v] = key[v] /\ v \in reach' /\ v \notin failed'
      /\ key'[v] = None => \A p \in Pane : v \notin SubsIn(mgr, p)
  BY <1>1, <1>3 DEF PageFits, TermTypeOK
<1>. QED
  BY <1>2, <1>3, <1>4, <1>5, <1>7, <1>8, <1>9, AloneFits

(* It hears that the container is gone.                                    *)
LEMMA HearsStoppedFits ==
  ASSUME TermInv, NEW v \in Page, HearsStopped(v)
  PROVE  TermInv'
<1>1. TermTypeOK /\ PageFits(v) /\ inbox[v] # <<>> /\ Read(v)
  BY DEF TermInv, HearsStopped, Hears
<1>2. /\ inbox[v] \in Seq(Message) /\ Head(inbox[v]) \in Message
      /\ inbox' \in [Page -> Seq(Message)] /\ inbox'[v] = Tail(inbox[v])
      /\ \A u \in Page : u # v => inbox'[u] = inbox[u]
      /\ FailedIn(inbox'[v], Procs)
  BY <1>1, Reading
<1>3. Head(inbox[v]) = Stop
  <2>1. Head(inbox[v])[1] = "containers" /\ ~Head(inbox[v])[2]
    BY DEF HearsStopped, Hears
  <2>. QED
    BY <1>2, <2>1, OfContainers
<1>4. /\ UNCHANGED <<mgr, up>> /\ reach' = reach \ {v} /\ shows' = shows /\ pending' = pending
      /\ key' = [key EXCEPT ![v] = None] /\ failed' = failed
  BY DEF HearsStopped
<1>5. /\ key' \in [Page -> Pane \cup {None}] /\ key'[v] = None
      /\ \A u \in Page : u # v => key'[u] = key[u]
  BY <1>1, <1>4 DEF TermTypeOK
<1>6. TermTypeOK'
  BY <1>1, <1>2, <1>4, <1>5 DEF TermTypeOK
<1>7. \A u \in Page : u # v => inbox'[u] = inbox[u] /\ Same(u)
  BY <1>2, <1>4, <1>5 DEF Same
<1>8. ~up
  <2>1. 1 \in DOMAIN inbox[v] /\ inbox[v][1] = Stop
    BY <1>1, <1>2, <1>3, Reads
  <2>. QED
    BY <1>1, <2>1 DEF PageFits, RunsIn
<1>9. StopIn(inbox'[v], v \in reach')
  BY <1>1, <1>2, <1>3, <1>4, <1>8, DownHeard DEF StopIn
<1>10. pending'[v] \subseteq 1..Len(Procs)
  BY <1>1, <1>4 DEF PageFits
<1>. QED
  BY <1>2, <1>4, <1>5, <1>6, <1>7, <1>8, <1>9, <1>10, AloneFits

-----------------------------------------------------------------------------
(* Opening.                                                                *)

(* What the server has become, m, before the page of v opens or not: the   *)
(* processes as they were, but for who views them.                         *)
Before(m, v) ==
  /\ m \in Manager /\ Mapped(m) /\ Len(m.procs) = Len(Procs)
  /\ \A i \in 1..Len(Procs) :
       /\ m.procs[i].st = Procs[i].st /\ m.procs[i].pane = Procs[i].pane
       /\ m.procs[i].opener = Procs[i].opener
       /\ Procs[i].st = "waits" => m.procs[i].subs = Procs[i].subs /\ m.procs[i].ending = Procs[i].ending
  /\ \A p \in Pane : mgr.ctl[p] = 0 => m.ctl[p] = 0
  /\ \A u \in Page, p \in Pane : u # v => (u \in SubsIn(m, p) <=> u \in SubsIn(mgr, p))

(* What the page of v is then to fit: it has k open and q to read.         *)
Ready(v, m, k, q) ==
  /\ k \in Pane \cup {None} /\ q \in Seq(Message) /\ FailedIn(q, Procs)
  /\ \A x \in Pane : v \in SubsIn(m, x) => k = x
  /\ k # None => v \in reach' /\ v \notin failed'
  /\ ~up => StopIn(q, v \in reach')
  /\ up => RunsIn(q, pending[v], k, v \in SubsIn(m, k))

Around(v) ==
  /\ up' = up /\ shows' \in [Page -> Pane \cup {None}] /\ reach' \subseteq Page /\ failed' \subseteq Page
  /\ \A u \in Page : u # v => (u \in reach' <=> u \in reach) /\ (u \in failed' <=> u \in failed)

Joins(v, p, m, q) ==
  /\ up /\ Settled(p) /\ v \in reach' /\ v \notin failed'
  /\ key' = [key EXCEPT ![v] = p]
  /\ pending' = [pending EXCEPT ![v] = @ \cup {Len(m.procs) + 1}]
  /\ mgr' = Joined(m, v, p) /\ inbox' = [inbox EXCEPT ![v] = q]

LEMMA JoinsFits ==
  ASSUME TermInv, NEW v \in Page, NEW p \in Pane, NEW m, NEW q,
         Before(m, v), Ready(v, m, None, q), Around(v), Joins(v, p, m, q)
  PROVE  TermInv'
<1>1. TermTypeOK /\ Opened /\ PageFits(v)
  BY DEF TermInv
<1>2. PICK n \in Nat : n = Len(Procs) /\ Procs \in Seq(Proc) /\ Len(m.procs) = n /\ DOMAIN Procs = 1..n
  BY <1>1, Types DEF Before
<1>3. m \in Manager /\ Mapped(m)
  BY DEF Before
<1>4. PICK j \in Manager : IsJoined(j, m, v, p)
  BY <1>3, JoinedFits
<1>5. /\ j = Joined(m, v, p) /\ Mapped(j) /\ Len(j.procs) = Len(m.procs) + 1
      /\ \A i \in 1..Len(m.procs) :
           /\ j.procs[i].pane = m.procs[i].pane /\ j.procs[i].opener = m.procs[i].opener
           /\ j.procs[i].st = m.procs[i].st /\ j.procs[i].subs = m.procs[i].subs
           /\ m.procs[i].pane # p => j.procs[i].ending = m.procs[i].ending
  BY <1>4 DEF IsJoined
<1>6. PICK c \in Proc :
        /\ c = j.procs[n + 1] /\ c.pane = p /\ c.opener = v
        /\ c.subs = SubsIn(m, p) \cup {v} /\ c.st = "waits" /\ c.ending = FALSE
  BY <1>2, <1>4 DEF IsJoined
<1>7. \A x \in Pane : SubsIn(j, x) = IF x = p THEN SubsIn(m, p) \cup {v} ELSE SubsIn(m, x)
  BY <1>4 DEF IsJoined
<1>8. mgr' = j /\ Procs' = j.procs /\ Len(Procs') = n + 1
  BY <1>2, <1>5 DEF Procs, Joins
<1>9. /\ key' \in [Page -> Pane \cup {None}] /\ key'[v] = p /\ p # None
      /\ pending' \in [Page -> SUBSET Nat] /\ pending'[v] = pending[v] \cup {n + 1}
      /\ inbox' \in [Page -> Seq(Message)] /\ inbox'[v] = q
      /\ \A u \in Page : u # v => key'[u] = key[u] /\ pending'[u] = pending[u] /\ inbox'[u] = inbox[u]
  <2>1. q \in Seq(Message)
    BY DEF Ready
  <2>. QED
    BY <1>1, <1>2, <2>1 DEF TermTypeOK, Joins
<1>10. TermTypeOK'
  BY <1>1, <1>8, <1>9 DEF TermTypeOK, Around, Manager
<1>11. Mapped(mgr') /\ Down'
  BY <1>5, <1>8 DEF Around, Down, Joins
<1>12. ASSUME NEW i \in 1..n, Procs[i].st = "waits"
      PROVE  Procs[i].pane # p
  BY <1>2, <1>12 DEF Settled, Joins
<1>13. ASSUME NEW i \in 1..Len(Procs'), Procs'[i].st = "waits"
       PROVE  /\ up'
              /\ i \in pending'[Procs'[i].opener] => Procs'[i].opener \in Procs'[i].subs /\ ~Procs'[i].ending
              /\ Procs'[i].opener \in Procs'[i].subs => i \in pending'[Procs'[i].opener]
  <2>1. CASE i = n + 1
    BY <1>2, <1>6, <1>8, <1>9, <2>1 DEF Around, Joins
  <2>2. CASE i \in 1..n
    <3>1. /\ Procs'[i].opener = Procs[i].opener /\ Procs'[i].st = Procs[i].st
          /\ Procs'[i].pane = Procs[i].pane /\ Procs[i].st = "waits"
      BY <1>2, <1>5, <1>8, <1>13, <2>2 DEF Before
    <3>2. Procs'[i].subs = Procs[i].subs /\ Procs'[i].ending = Procs[i].ending
      BY <1>2, <1>5, <1>8, <1>12, <2>2, <3>1 DEF Before
    <3>3. Procs[i] \in Proc
      BY <1>2, <2>2
    <3>4. Procs[i].opener \in Page
      BY <3>3 DEF Proc
    <3>5. i \in pending'[Procs[i].opener] <=> i \in pending[Procs[i].opener]
      <4>1. i # n + 1
        BY <1>2, <2>2
      <4>2. CASE Procs[i].opener = v
        BY <1>9, <4>1, <4>2
      <4>3. CASE Procs[i].opener # v
        BY <1>9, <3>4, <4>3
      <4>. QED
        BY <4>2, <4>3
    <3>6. /\ i \in pending[Procs[i].opener] => Procs[i].opener \in Procs[i].subs /\ ~Procs[i].ending
          /\ Procs[i].opener \in Procs[i].subs => i \in pending[Procs[i].opener]
      BY <1>1, <1>2, <2>2, <3>1 DEF Opened
    <3>. QED
      BY <3>1, <3>2, <3>5, <3>6 DEF Around, Joins
  <2>. QED
    BY <1>2, <1>8, <2>1, <2>2
<1>14. Opened'
  BY <1>13 DEF Opened
<1>15. Grown
  <2>1. \A i \in 1..n : Procs[i].st = "over" => Procs'[i].st = "over"
    BY <1>2, <1>5, <1>8 DEF Before
  <2>. QED
    BY <1>2, <1>4, <1>8, <2>1 DEF Grown
<1>16. ASSUME NEW u \in Page, u # v
       PROVE  PageFits(u)'
  <2>1. Same(u)
    BY <1>9, <1>16 DEF Same, Around
  <2>2. StreamsSame(u)
    BY <1>7, <1>8, <1>16 DEF StreamsSame, Before
  <2>. QED
    BY <1>9, <1>15, <1>16, <2>1, <2>2, Elsewhere DEF Around
<1>17. PageFits(v)'
  <2>1. FailedIn(q, Procs) /\ q \in Seq(Message)
    BY DEF Ready
  <2>2. FailedIn(inbox'[v], Procs')
    <3>1. j.procs \in Seq(Proc) /\ Len(Procs) <= Len(j.procs)
          /\ \A i \in 1..Len(Procs) : Procs[i].st = "over" => j.procs[i].st = "over"
      BY <1>2, <1>4, <1>8, <1>15 DEF Grown, Manager
    <3>2. FailedIn(q, j.procs)
      BY <1>2, <2>1, <3>1, FailedStays
    <3>. QED
      BY <1>8, <1>9, <3>2
  <2>3. pending'[v] \subseteq 1..Len(Procs')
    BY <1>1, <1>2, <1>8, <1>9 DEF PageFits
  <2>4. \A x \in Pane : v \in SubsIn(mgr', x) => key'[v] = x
    BY <1>7, <1>8, <1>9 DEF Ready
  <2>5. v \in SubsIn(mgr', p)
    BY <1>7, <1>8
  <2>6. RunsIn(q, pending[v], None, TRUE)
    <3>1. RunsIn(q, pending[v], None, v \in SubsIn(m, None))
      BY DEF Ready, Joins
    <3>. QED
      BY <3>1 DEF RunsIn
  <2>7. RunsIn(q, pending[v] \cup {n + 1}, p, TRUE)
    BY <1>2, <2>1, <2>6, RunsOpen
  <2>8. RunsIn(inbox'[v], pending'[v], key'[v], v \in SubsIn(mgr', key'[v]))
    BY <1>9, <2>5, <2>7 DEF RunsIn
  <2>. QED
    BY <1>9, <2>2, <2>3, <2>4, <2>8 DEF PageFits, Around, Joins
<1>. QED
  BY <1>10, <1>11, <1>14, <1>16, <1>17 DEF TermInv

(* While the container is down an open is refused.                         *)
Refuses(v, p, m, q) ==
  /\ ~up /\ v \in reach' /\ v \notin failed'
  /\ key' = [key EXCEPT ![v] = p]
  /\ pending' = [pending EXCEPT ![v] = @ \cup {Len(m.procs) + 1}]
  /\ mgr' = Refused(m, v, p)
  /\ inbox' = [inbox EXCEPT ![v] = Append(q, <<"failed", Len(m.procs) + 1>>)]

LEMMA RefusesFits ==
  ASSUME TermInv, NEW v \in Page, NEW p \in Pane, NEW m, NEW q,
         Before(m, v), Ready(v, m, None, q), Around(v), Refuses(v, p, m, q)
  PROVE  TermInv'
<1>1. TermTypeOK /\ Opened /\ Down /\ PageFits(v)
  BY DEF TermInv
<1>2. PICK n \in Nat : n = Len(Procs) /\ Procs \in Seq(Proc) /\ Len(m.procs) = n /\ DOMAIN Procs = 1..n
  BY <1>1, Types DEF Before
<1>3. m \in Manager /\ Mapped(m)
  BY DEF Before
<1>4. PICK j \in Manager : IsRefused(j, m, v, p)
  BY <1>3, RefusedFits
<1>5. /\ j = Refused(m, v, p) /\ Mapped(j) /\ Len(j.procs) = n + 1
      /\ \A i \in 1..n : j.procs[i] = m.procs[i]
      /\ j.procs[n + 1].st = "over" /\ j.ctl = m.ctl
      /\ \A x \in Pane : SubsIn(j, x) = SubsIn(m, x)
  BY <1>2, <1>4 DEF IsRefused
<1>6. mgr' = j /\ Procs' = j.procs /\ up' = FALSE
  BY <1>5 DEF Procs, Refuses, Around
<1>7. PICK fm \in Message : fm = <<"failed", n + 1>>
  <2>1. n + 1 \in Nat
    BY <1>2
  <2>2. <<"failed", n + 1>> \in Message
    BY <2>1, Messages
  <2>. QED
    BY <2>2
<1>8. Append(q, fm) \in Seq(Message)
  BY QueueJoins DEF Ready
<1>9. /\ key' \in [Page -> Pane \cup {None}] /\ key'[v] = p
      /\ pending' \in [Page -> SUBSET Nat] /\ pending'[v] = pending[v] \cup {n + 1}
      /\ inbox' \in [Page -> Seq(Message)] /\ inbox'[v] = Append(q, fm)
      /\ \A u \in Page : u # v => key'[u] = key[u] /\ pending'[u] = pending[u] /\ inbox'[u] = inbox[u]
  BY <1>1, <1>2, <1>7, <1>8 DEF TermTypeOK, Refuses
<1>10. TermTypeOK'
  BY <1>1, <1>6, <1>9 DEF TermTypeOK, Around, Manager
<1>11. \A x \in Pane : j.ctl[x] = 0
  BY <1>1, <1>5 DEF Down, Refuses, Before
<1>12. Mapped(mgr') /\ Down'
  BY <1>5, <1>6, <1>11 DEF Down
<1>13. Opened'
  <2>1. \A i \in 1..n : Procs[i].st # "waits"
    BY <1>1, <1>2 DEF Opened, Refuses
  <2>2. ASSUME NEW i \in 1..n + 1 PROVE j.procs[i].st # "waits"
    <3>1. CASE i = n + 1
      BY <1>5, <3>1
    <3>2. CASE i \in 1..n
      <4>1. m.procs[i].st = Procs[i].st
        BY <1>2, <3>2 DEF Before
      <4>. QED
        BY <1>5, <2>1, <3>2, <4>1
    <3>. QED
      BY <1>2, <3>1, <3>2
  <2>3. Len(Procs') = n + 1 /\ \A i \in 1..n + 1 : Procs'[i].st # "waits"
    BY <1>5, <1>6, <2>2
  <2>. QED
    BY <2>3 DEF Opened
<1>14. \A i \in 1..n : Procs[i].st = "over" => j.procs[i].st = "over"
  BY <1>2, <1>5 DEF Before
<1>15. Grown
  BY <1>2, <1>5, <1>6, <1>14 DEF Grown
<1>16. ASSUME NEW u \in Page, u # v
       PROVE  PageFits(u)'
  <2>1. Same(u)
    BY <1>9, <1>16 DEF Same, Around
  <2>2. StreamsSame(u)
    BY <1>5, <1>6, <1>16 DEF StreamsSame, Before
  <2>. QED
    BY <1>9, <1>15, <1>16, <2>1, <2>2, Elsewhere DEF Around
<1>17. PageFits(v)'
  <2>1. FailedIn(q, Procs) /\ q \in Seq(Message) /\ StopIn(q, v \in reach')
    BY DEF Ready, Refuses
  <2>2. FailedIn(Append(q, fm), j.procs)
    <3>1. j.procs \in Seq(Proc) /\ Len(Procs) <= Len(j.procs)
      BY <1>2, <1>5 DEF Manager
    <3>2. fm[2] \in 1..Len(j.procs) /\ j.procs[fm[2]].st = "over"
      BY <1>2, <1>5, <1>7
    <3>3. \A i \in 1..Len(Procs) : Procs[i].st = "over" => j.procs[i].st = "over"
      BY <1>2, <1>14
    <3>. QED
      BY <1>2, <2>1, <3>1, <3>2, <3>3, FailedStays
  <2>3. StopIn(Append(q, fm), v \in reach')
    <3>1. fm # Connect
      BY <1>7, Messages
    <3>2. StopIn(q, TRUE)
      BY <2>1 DEF Refuses, StopIn
    <3>3. StopIn(Append(q, fm), TRUE)
      BY <2>1, <3>1, <3>2, StopJoins
    <3>. QED
      BY <3>3 DEF StopIn
  <2>4. pending'[v] \subseteq 1..Len(Procs')
    BY <1>1, <1>2, <1>5, <1>6, <1>9 DEF PageFits
  <2>5. \A x \in Pane : v \notin SubsIn(mgr', x)
    BY <1>6, <1>11 DEF SubsIn
  <2>. QED
    BY <1>6, <1>9, <2>2, <2>3, <2>4, <2>5 DEF PageFits, Refuses
<1>. QED
  BY <1>10, <1>12, <1>13, <1>16, <1>17 DEF TermInv

(* Nothing is opened.                                                      *)
Keeps(v, m, k, q) ==
  /\ key' = [key EXCEPT ![v] = k] /\ pending' = pending
  /\ mgr' = m /\ inbox' = [inbox EXCEPT ![v] = q]

LEMMA KeepsFits ==
  ASSUME TermInv, NEW v \in Page, NEW m, NEW k, NEW q,
         Before(m, v), Ready(v, m, k, q), Around(v), Keeps(v, m, k, q)
  PROVE  TermInv'
<1>1. TermTypeOK /\ Opened /\ Down /\ PageFits(v)
  BY DEF TermInv
<1>2. PICK n \in Nat : n = Len(Procs) /\ Procs \in Seq(Proc) /\ Len(m.procs) = n /\ DOMAIN Procs = 1..n
  BY <1>1, Types DEF Before
<1>3. /\ m \in Manager /\ Mapped(m) /\ mgr' = m /\ Procs' = m.procs /\ up' = up /\ pending' = pending
      /\ q \in Seq(Message)
  BY DEF Before, Keeps, Around, Ready, Procs
<1>4. /\ key' \in [Page -> Pane \cup {None}] /\ key'[v] = k
      /\ inbox' \in [Page -> Seq(Message)] /\ inbox'[v] = q
      /\ \A u \in Page : u # v => key'[u] = key[u] /\ inbox'[u] = inbox[u]
  BY <1>1, <1>3 DEF TermTypeOK, Keeps, Ready
<1>5. TermTypeOK'
  BY <1>1, <1>3, <1>4 DEF TermTypeOK, Around, Manager
<1>6. Mapped(mgr') /\ Down'
  BY <1>1, <1>3 DEF Down, Before
<1>7. Opened'
  BY <1>1, <1>2, <1>3 DEF Opened, Before
<1>8. Grown
  BY <1>2, <1>3 DEF Grown, Before
<1>9. ASSUME NEW u \in Page, u # v
      PROVE  PageFits(u)'
  <2>1. Same(u)
    BY <1>3, <1>4, <1>9 DEF Same, Around
  <2>2. StreamsSame(u)
    BY <1>3, <1>9 DEF StreamsSame, Before
  <2>. QED
    BY <1>3, <1>4, <1>8, <1>9, <2>1, <2>2, Elsewhere
<1>10. PageFits(v)'
  <2>1. FailedIn(q, m.procs)
    <3>1. m.procs \in Seq(Proc) /\ Len(Procs) <= Len(m.procs) /\ FailedIn(q, Procs)
      BY <1>2, <1>3 DEF Manager, Ready
    <3>2. \A i \in 1..Len(Procs) : Procs[i].st = "over" => m.procs[i].st = "over"
      BY DEF Before
    <3>. QED
      BY <1>2, <1>3, <3>1, <3>2, FailedStays
  <2>2. pending'[v] \subseteq 1..Len(Procs')
    BY <1>1, <1>2, <1>3 DEF PageFits
  <2>. QED
    BY <1>3, <1>4, <2>1, <2>2 DEF PageFits, Ready
<1>. QED
  BY <1>5, <1>6, <1>7, <1>9, <1>10 DEF TermInv

(* reconcileTiles.                                                         *)
LEMMA ReconcileFits ==
  ASSUME TermInv, ~Races, NEW v \in Page, NEW p \in Pane \cup {None}, NEW m, NEW k, NEW q,
         Before(m, v), Ready(v, m, k, q), Around(v), Reconcile(v, p, k, m, q)
  PROVE  TermInv'
<1>1. CASE p # None /\ v \in reach' /\ k = None /\ v \notin failed'
  <2>1. p \in Pane /\ Ready(v, m, None, q)
    BY <1>1
  <2>2. CASE up
    <3>1. Joins(v, p, m, q)
      BY <1>1, <2>2 DEF Reconcile, Joins
    <3>. QED
      BY <2>1, <3>1, JoinsFits
  <2>3. CASE ~up
    <3>1. Refuses(v, p, m, q)
      BY <1>1, <2>3 DEF Reconcile, Refuses
    <3>. QED
      BY <2>1, <3>1, RefusesFits
  <2>. QED
    BY <2>2, <2>3
<1>2. CASE ~(p # None /\ v \in reach' /\ k = None /\ v \notin failed')
  <2>1. Keeps(v, m, k, q)
    BY <1>2 DEF Reconcile, Keeps
  <2>. QED
    BY <2>1, KeepsFits
<1>. QED
  BY <1>1, <1>2

(* The user asks for the pane again.                                       *)
LEMMA ReconnectsFits ==
  ASSUME TermInv, ~Races, NEW v \in Page, Reconnects(v)
  PROVE  TermInv'
<1>1. TermTypeOK /\ Mapped(mgr) /\ PageFits(v)
  BY DEF TermInv
<1>2. /\ mgr \in Manager /\ inbox[v] \in Seq(Message) /\ shows[v] \in Pane \cup {None}
      /\ Procs = mgr.procs /\ Len(Procs) \in Nat /\ key[v] \in Pane \cup {None}
  BY <1>1, Types
<1>3. /\ v \in failed /\ failed' = failed \ {v} /\ up' = up /\ reach' = reach /\ shows' = shows
      /\ Reconcile(v, shows[v], None, mgr, inbox[v])
  BY DEF Reconnects
<1>4. Before(mgr, v)
  BY <1>1, <1>2 DEF Before
<1>5. key[v] = None
  BY <1>1, <1>3 DEF PageFits
<1>6. Ready(v, mgr, None, inbox[v])
  <2>1. up => RunsIn(inbox[v], pending[v], None, v \in SubsIn(mgr, None))
    BY <1>1, <1>5 DEF PageFits
  <2>. QED
    BY <1>1, <1>2, <1>3, <1>5, <2>1 DEF Ready, PageFits
<1>7. Around(v)
  BY <1>1, <1>3 DEF Around, TermTypeOK
<1>. QED
  BY <1>2, <1>3, <1>4, <1>6, <1>7, ReconcileFits

(* It hears that the container is there.                                   *)
LEMMA HearsConnectedFits ==
  ASSUME TermInv, ~Races, NEW v \in Page, HearsConnected(v)
  PROVE  TermInv'
<1>1. TermTypeOK /\ Mapped(mgr) /\ PageFits(v) /\ inbox[v] # <<>>
  BY DEF TermInv, HearsConnected, Hears
<1>2. /\ mgr \in Manager /\ inbox[v] \in Seq(Message) /\ shows[v] \in Pane \cup {None}
      /\ Procs = mgr.procs /\ Procs \in Seq(Proc) /\ Len(Procs) \in Nat /\ key[v] \in Pane \cup {None}
  BY <1>1, Types
<1>3. Head(inbox[v]) \in Message /\ Tail(inbox[v]) \in Seq(Message)
  BY <1>1, <1>2, Reads
<1>4. Head(inbox[v]) = Connect
  BY <1>3, OfContainers DEF HearsConnected, Hears
<1>5. /\ reach' = reach \cup {v} /\ up' = up /\ shows' = shows /\ failed' = failed
      /\ Reconcile(v, shows[v], key[v], mgr, Tail(inbox[v]))
  BY DEF HearsConnected
<1>6. Before(mgr, v)
  BY <1>1, <1>2 DEF Before
<1>7. Ready(v, mgr, key[v], Tail(inbox[v]))
  <2>1. FailedIn(Tail(inbox[v]), Procs)
    BY <1>1, <1>2, FailedStays DEF PageFits
  <2>2. up => RunsIn(Tail(inbox[v]), pending[v], key[v], v \in SubsIn(mgr, key[v]))
    <3>1. ~IsEnd(Head(inbox[v]), pending[v])
      BY <1>4, Messages
    <3>. QED
      BY <1>1, <3>1, OtherHeard
  <2>3. ~up => StopIn(Tail(inbox[v]), v \in reach')
    BY <1>1, <1>4, <1>5, DownHeard DEF StopIn
  <2>. QED
    BY <1>1, <1>2, <1>3, <1>5, <2>1, <2>2, <2>3 DEF Ready, PageFits
<1>8. Around(v)
  BY <1>1, <1>5 DEF Around, TermTypeOK
<1>. QED
  BY <1>2, <1>5, <1>6, <1>7, <1>8, ReconcileFits

(* The tile is shown a pane in place of the one it has.                    *)
LEMMA ShowsFits ==
  ASSUME TermInv, ~Races, NEW v \in Page, NEW p \in Pane \cup {None}, Shows(v, p)
  PROVE  TermInv'
<1>1. TermTypeOK /\ Mapped(mgr) /\ PageFits(v)
  BY DEF TermInv
<1>2. /\ mgr \in Manager /\ inbox[v] \in Seq(Message) /\ Procs = mgr.procs /\ Len(Procs) \in Nat
      /\ Procs \in Seq(Proc) /\ DOMAIN Procs = 1..Len(Procs) /\ key[v] \in Pane \cup {None}
  BY <1>1, Types
<1>3. /\ failed' = failed \ {v} /\ up' = up /\ reach' = reach /\ shows' = [shows EXCEPT ![v] = p]
      /\ inbox[v] = <<>> /\ \A x \in Pane : Settled(x)
      /\ Reconcile(v, p, None, Left(mgr, v, {key[v]}), inbox[v])
  BY DEF Shows, Heard
<1>4. PICK ps : ps = {key[v]}
  OBVIOUS
<1>5. PICK l \in Manager : IsLeft(l, mgr, v, ps)
  BY <1>1, <1>2, LeftFits
<1>6. /\ l = Left(mgr, v, {key[v]}) /\ Mapped(l) /\ Len(l.procs) = Len(Procs)
      /\ \A i \in 1..Len(Procs) : l.procs[i].pane = Procs[i].pane /\ l.procs[i].opener = Procs[i].opener
                                  /\ l.procs[i].st = Procs[i].st
      /\ \A x \in Pane : /\ mgr.ctl[x] = 0 => l.ctl[x] = 0
                         /\ SubsIn(l, x) = IF x \in ps THEN SubsIn(mgr, x) \ {v} ELSE SubsIn(mgr, x)
  BY <1>2, <1>4, <1>5 DEF IsLeft
<1>7. \A i \in 1..Len(Procs) : Procs[i].st # "waits"
  <2>1. \A i \in 1..Len(Procs) : Procs[i] \in Proc
    BY <1>2
  <2>2. \A i \in 1..Len(Procs) : Procs[i].pane \in Pane
    BY <2>1 DEF Proc
  <2>. QED
    BY <1>2, <1>3, <2>2 DEF Settled
<1>8. Before(l, v)
  <2>1. \A u \in Page, x \in Pane : u # v => (u \in SubsIn(l, x) <=> u \in SubsIn(mgr, x))
    BY <1>6
  <2>. QED
    BY <1>6, <1>7, <2>1 DEF Before
<1>9. \A x \in Pane : v \notin SubsIn(l, x)
  BY <1>1, <1>4, <1>6 DEF PageFits
<1>10. Ready(v, l, None, inbox[v])
  <2>1. ~up => v \notin reach
    BY <1>3, HeardDown
  <2>2. ~up => StopIn(inbox[v], v \in reach')
    BY <1>3, <2>1 DEF StopIn
  <2>3. up => RunsIn(inbox[v], pending[v], None, v \in SubsIn(l, None))
    <3>1. RunsIn(<<>>, pending[v], None, TRUE)
      BY RunsNone
    <3>. QED
      BY <1>3, <3>1 DEF RunsIn
  <2>. QED
    BY <1>1, <1>2, <1>9, <2>2, <2>3 DEF Ready, PageFits
<1>11. Around(v)
  BY <1>1, <1>3 DEF Around, TermTypeOK
<1>. QED
  BY <1>3, <1>6, <1>8, <1>10, <1>11, ReconcileFits

(* closeAll.                                                               *)
LEMMA SocketDropsFits ==
  ASSUME TermInv, NEW v \in Page, SocketDrops(v)
  PROVE  TermInv'
<1>1. TermTypeOK /\ Mapped(mgr) /\ Opened /\ Down /\ PageFits(v)
  BY DEF TermInv
<1>2. /\ mgr \in Manager /\ Procs = mgr.procs /\ Len(Procs) \in Nat
      /\ Procs \in Seq(Proc) /\ DOMAIN Procs = 1..Len(Procs) /\ key[v] \in Pane \cup {None}
  BY <1>1, Types
<1>3. PICK l \in Manager : IsLeft(l, mgr, v, Pane)
  BY <1>1, <1>2, LeftFits
<1>4. /\ l = Left(mgr, v, Pane) /\ Mapped(l) /\ Len(l.procs) = Len(Procs)
      /\ \A p \in Pane : mgr.ctl[p] = 0 => l.ctl[p] = 0
      /\ \A p \in Pane : SubsIn(l, p) = SubsIn(mgr, p) \ {v}
  BY <1>2, <1>3 DEF IsLeft
<1>5. \A i \in 1..Len(Procs) :
        /\ l.procs[i].opener = Procs[i].opener /\ l.procs[i].st = Procs[i].st
        /\ \/ l.procs[i] = Procs[i]
           \/ /\ ~Procs[i].ending /\ l.procs[i].subs = Procs[i].subs \ {v}
              /\ l.procs[i].ending = TRUE => Procs[i].subs = {v}
  BY <1>2, <1>3 DEF IsLeft
<1>6. /\ mgr' = l /\ Procs' = l.procs /\ up' = up /\ shows' = shows /\ failed' = failed
      /\ reach' = reach \ {v} /\ key' = [key EXCEPT ![v] = None]
      /\ pending' = [pending EXCEPT ![v] = {}]
      /\ inbox' = [inbox EXCEPT ![v] = <<<<"containers", up>>>>]
  BY <1>4 DEF SocketDrops, Procs
<1>7. PICK m \in Message : m = <<"containers", up>> /\ m = IF up THEN Connect ELSE Stop
  <2>1. CASE up
    BY <1>1, <2>1, Messages DEF TermTypeOK, Connect
  <2>2. CASE ~up
    BY <1>1, <2>2, Messages DEF TermTypeOK, Stop
  <2>. QED
    BY <2>1, <2>2
<1>8. <<m>> \in Seq(Message)
  OBVIOUS
<1>9. /\ key' \in [Page -> Pane \cup {None}] /\ key'[v] = None
      /\ pending' \in [Page -> SUBSET Nat] /\ pending'[v] = {}
      /\ inbox' \in [Page -> Seq(Message)] /\ inbox'[v] = <<m>>
      /\ \A u \in Page : u # v => key'[u] = key[u] /\ pending'[u] = pending[u] /\ inbox'[u] = inbox[u]
  BY <1>1, <1>6, <1>7, <1>8 DEF TermTypeOK
<1>10. TermTypeOK'
  BY <1>1, <1>6, <1>9 DEF TermTypeOK, Manager
<1>11. Mapped(mgr') /\ Down'
  BY <1>1, <1>4, <1>6 DEF Down
<1>12. ASSUME NEW i \in 1..Len(Procs'), Procs'[i].st = "waits"
       PROVE  /\ up'
              /\ i \in pending'[Procs'[i].opener] => Procs'[i].opener \in Procs'[i].subs /\ ~Procs'[i].ending
              /\ Procs'[i].opener \in Procs'[i].subs => i \in pending'[Procs'[i].opener]
  <2>1. PICK c \in Proc : c = Procs[i] /\ i \in 1..Len(Procs)
    BY <1>2, <1>4, <1>6
  <2>2. PICK d \in Proc : d = Procs'[i]
    BY <1>4, <1>6, <2>1 DEF Manager
  <2>3. c.st = "waits" /\ d.opener = c.opener /\ c.opener \in Page /\ d.ending \in BOOLEAN
    BY <1>5, <1>6, <1>12, <2>1, <2>2 DEF Proc
  <2>4. /\ up
        /\ i \in pending[c.opener] => c.opener \in c.subs /\ ~c.ending
        /\ c.opener \in c.subs => i \in pending[c.opener]
    BY <1>1, <2>1, <2>3 DEF Opened
  <2>5. \/ d = c
        \/ /\ ~c.ending /\ d.subs = c.subs \ {v}
           /\ d.ending = TRUE => c.subs = {v}
    BY <1>5, <1>6, <2>1, <2>2
  <2>6. CASE c.opener = v
    <3>1. i \notin pending'[v]
      BY <1>9
    <3>2. v \notin d.subs
      <4>1. CASE d = c
        <5>1. SUFFICES ASSUME v \in c.subs
                       PROVE  FALSE
          BY <4>1
        <5>2. ~c.ending
          BY <2>4, <2>6, <5>1
        <5>3. mgr.ctl[c.pane] = i /\ c.pane \in Pane /\ i # 0
          BY <1>1, <1>2, <2>1, <2>3, <5>2 DEF Mapped, Proc
        <5>4. v \in SubsIn(mgr, c.pane)
          BY <1>2, <2>1, <5>1, <5>3 DEF SubsIn
        <5>5. l.ctl[c.pane] = i
          <6>1. i \in 1..Len(l.procs) /\ l.procs[i] = c
            BY <1>6, <2>2, <4>1
          <6>2. c.st # "over"
            BY <2>3
          <6>. QED
            BY <1>4, <5>2, <6>1, <6>2 DEF Mapped
        <5>6. SubsIn(l, c.pane) = d.subs
          BY <1>6, <2>2, <5>3, <5>5 DEF SubsIn
        <5>. QED
          BY <1>4, <4>1, <5>1, <5>3, <5>6
      <4>2. CASE d.subs = c.subs \ {v}
        BY <4>2
      <4>. QED
        BY <2>5, <4>1, <4>2
    <3>. QED
      BY <1>6, <2>2, <2>3, <2>4, <2>6, <3>1, <3>2
  <2>7. CASE c.opener # v
    <3>1. i \in pending'[c.opener] <=> i \in pending[c.opener]
      BY <1>9, <2>3, <2>7
    <3>2. c.opener \in d.subs <=> c.opener \in c.subs
      BY <2>5, <2>7
    <3>3. i \in pending[c.opener] => d.ending = FALSE
      BY <2>3, <2>4, <2>5, <2>7
    <3>. QED
      BY <1>6, <2>2, <2>3, <2>4, <3>1, <3>2, <3>3
  <2>. QED
    BY <2>6, <2>7
<1>13. Opened'
  BY <1>12 DEF Opened
<1>14. Grown
  BY <1>2, <1>4, <1>5, <1>6 DEF Grown
<1>15. ASSUME NEW u \in Page, u # v
       PROVE  PageFits(u)'
  <2>1. Same(u)
    BY <1>6, <1>9, <1>15 DEF Same
  <2>2. StreamsSame(u)
    BY <1>4, <1>6, <1>15 DEF StreamsSame
  <2>. QED
    BY <1>6, <1>9, <1>14, <1>15, <2>1, <2>2, Elsewhere
<1>16. PageFits(v)'
  <2>1. m[1] # "failed" /\ \A n \in DOMAIN <<m>> : <<m>>[n] = m
    BY <1>7
  <2>2. FailedIn(inbox'[v], Procs')
    BY <1>9, <2>1 DEF FailedIn
  <2>3. \A p \in Pane : v \notin SubsIn(mgr', p)
    BY <1>4, <1>6
  <2>4. ~up => StopIn(<<m>>, FALSE)
    BY <1>7, <2>1, Messages DEF StopIn
  <2>5. up => RunsIn(<<m>>, {}, None, TRUE)
    BY <1>7, RunsNone
  <2>6. up' => RunsIn(inbox'[v], pending'[v], key'[v], v \in SubsIn(mgr', key'[v]))
    BY <1>6, <1>9, <2>5 DEF RunsIn
  <2>7. ~up' => StopIn(inbox'[v], v \in reach')
    BY <1>6, <1>9, <2>4 DEF StopIn
  <2>. QED
    BY <1>9, <2>2, <2>3, <2>6, <2>7 DEF PageFits
<1>. QED
  BY <1>10, <1>11, <1>13, <1>15, <1>16 DEF TermInv

-----------------------------------------------------------------------------
(* The theorems.                                                           *)

(* ControllerManager and the tiles keep in step: whatever a page has open  *)
(* is streamed to it, or the message that ends it is on its way.           *)
THEOREM TerminalsInvariant ==
  ASSUME ~Races
  PROVE  Spec => []TermInv
<1>1. Init => TermInv
  <2>1. SUFFICES ASSUME Init
                 PROVE  TermInv
    OBVIOUS
  <2>2. /\ mgr.procs = <<>> /\ Procs = <<>> /\ mgr.ctl = [p \in Pane |-> 0]
        /\ mgr = [procs |-> <<>>, ctl |-> [p \in Pane |-> 0]]
    BY <2>1 DEF Init, Procs
  <2>3. mgr \in Manager /\ Len(Procs) = 0
    <3>1. <<>> \in Seq(Proc) /\ [p \in Pane |-> 0] \in [Pane -> Nat]
      OBVIOUS
    <3>. QED
      BY <2>2, <3>1 DEF Manager
  <2>4. TermTypeOK
    <3>1. <<>> \in Seq(Message)
      OBVIOUS
    <3>. QED
      BY <2>1, <2>3, <3>1 DEF Init, TermTypeOK, Manager
  <2>5. Mapped(mgr) /\ Opened /\ Down /\ \A p \in Pane : SubsIn(mgr, p) = {}
    BY <2>1, <2>2, <2>3 DEF Init, Mapped, Opened, Down, SubsIn
  <2>6. ASSUME NEW v \in Page
        PROVE  PageFits(v)
    <3>1. inbox[v] = <<>> /\ key[v] = None /\ pending[v] = {} /\ up
      BY <2>1 DEF Init
    <3>2. FailedIn(<<>>, Procs)
      BY DEF FailedIn
    <3>3. RunsIn(<<>>, {}, None, TRUE)
      BY RunsNone
    <3>4. RunsIn(inbox[v], pending[v], key[v], v \in SubsIn(mgr, key[v]))
      BY <3>1, <3>3 DEF RunsIn
    <3>. QED
      BY <2>5, <3>1, <3>2, <3>4 DEF PageFits
  <2>. QED
    BY <2>4, <2>5, <2>6 DEF TermInv
<1>2. TermInv /\ [Next]_terminalVars => TermInv'
  <2>1. SUFFICES ASSUME TermInv, [Next]_terminalVars
                 PROVE  TermInv'
    OBVIOUS
  <2>2. CASE UNCHANGED terminalVars
    <3>1. /\ mgr' = mgr /\ up' = up /\ reach' = reach /\ shows' = shows /\ key' = key
          /\ failed' = failed /\ pending' = pending /\ inbox' = inbox
      BY <2>2 DEF terminalVars, pageVars
    <3>2. TermTypeOK' /\ Mapped(mgr') /\ Opened' /\ Down'
      BY <2>1, <3>1 DEF TermInv, TermTypeOK, Opened, Down, Procs
    <3>3. \A v \in Page : PageFits(v)'
      BY <2>1, <3>1 DEF TermInv, PageFits, Procs
    <3>. QED
      BY <3>2, <3>3 DEF TermInv
  <2>3. ASSUME NEW i \in DOMAIN Procs, Frame(i)
        PROVE  TermInv'
    BY <2>1, <2>3, FrameFits
  <2>4. ASSUME NEW i \in DOMAIN Procs, Goes(i)
        PROVE  TermInv'
    BY <2>1, <2>4, GoesFits
  <2>5. CASE ContainerStops
    BY <2>1, <2>5, ContainerStopsFits
  <2>6. CASE ContainerConnects
    BY <2>1, <2>6, ContainerConnectsFits
  <2>7. ASSUME NEW v \in Page, PageStep(v)
        PROVE  TermInv'
    BY <2>1, <2>7, HearsClosedFits, HearsFailedFits, HearsFrameFits, HearsStoppedFits,
       HearsConnectedFits DEF PageStep
  <2>8. ASSUME NEW v \in Page, Reconnects(v)
        PROVE  TermInv'
    BY <2>1, <2>8, ReconnectsFits
  <2>9. ASSUME NEW v \in Page, SocketDrops(v)
        PROVE  TermInv'
    BY <2>1, <2>9, SocketDropsFits
  <2>10. ASSUME NEW v \in Page, NEW p \in Pane \cup {None}, Shows(v, p)
         PROVE  TermInv'
    BY <2>1, <2>10, ShowsFits
  <2>. QED
    BY <2>1, <2>2, <2>3, <2>4, <2>5, <2>6, <2>7, <2>8, <2>9, <2>10 DEF Next
<1>. QED
  BY <1>1, <1>2, PTL DEF Spec

(* A page that has read everything has open what the server streams to it. *)
THEOREM TerminalsViewersAgree ==
  ASSUME ~Races
  PROVE  Spec => []ViewersAgree
<1>1. TermInv => ViewersAgree
  <2>1. SUFFICES ASSUME TermInv, NEW v \in Page, inbox[v] = <<>>, NEW p \in Pane
                 PROVE  key[v] = p <=> v \in Subs(p)
    BY DEF ViewersAgree
  <2>2. PageFits(v) /\ Down /\ Subs(p) = SubsIn(mgr, p) /\ p # None
    BY <2>1 DEF TermInv, Subs, SubsIn, Procs
  <2>3. v \in Subs(p) => key[v] = p
    BY <2>2 DEF PageFits
  <2>4. ASSUME key[v] = p
        PROVE  v \in Subs(p)
    <3>1. up
      BY <2>1, <2>2, <2>4, HeardDown
    <3>2. RunsIn(<<>>, pending[v], key[v], v \in SubsIn(mgr, key[v]))
      BY <2>1, <2>2, <3>1 DEF PageFits
    <3>3. EndsIn(<<>>, pending[v]) = {}
      BY DEF EndsIn
    <3>. QED
      BY <2>2, <2>4, <3>2, <3>3 DEF RunsIn
  <2>. QED
    BY <2>3, <2>4
<1>. QED
  BY <1>1, TerminalsInvariant, PTL
=============================================================================
