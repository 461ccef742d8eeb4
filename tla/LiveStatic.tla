----------------------------- MODULE LiveStatic -----------------------------
(***************************************************************************)
(* The page's files of a live run (src/devc/web/live.ts): a checkout's     *)
(* static/ directory, the generation of it that the running child serves,  *)
(* and the last-good snapshot, a copy of the generation a page has         *)
(* rendered, which is served when the page of the checkout is broken.      *)
(*                                                                         *)
(* The files are two halves, copied one after the other.                   *)
(***************************************************************************)
EXTENDS Naturals, Sequences, FiniteSets

CONSTANTS
  None,
  Returns,    \* may the files become what they were before
  MaxStatic   \* bound: versions of the files

ASSUME StaticAssumption == Returns \in BOOLEAN /\ MaxStatic \in Nat \ {0} /\ None \notin Nat

VARIABLES
  files,      \* the version of static/
  newest,     \* the number of versions so far
  gen,        \* #generation of the child that runs, or 0
  watch,      \* its watch of static/: "off", "on", or "due" with the timer of an event
  tried,      \* its #snapshotted
  work,       \* the writeSnapshot under way, or None
  snap        \* the snapshot: its GENERATION and its files, or None

staticVars == <<files, newest, gen, watch, tried, work, snap>>

Version == 1..MaxStatic
Copy == [gen : Version, half : Seq(Version)]

StaticInit ==
  /\ files = 1 /\ newest = 1
  /\ gen = 0 /\ watch = "off" /\ tried = {} /\ work = None
  /\ snap = None

EditStatic ==
  /\ \/ newest < MaxStatic /\ newest' = newest + 1 /\ files' = newest'
     \/ Returns /\ UNCHANGED newest /\ files' \in 1..newest
  /\ files' # files
  /\ watch' = IF watch = "off" THEN "off" ELSE "due"
  /\ UNCHANGED <<gen, tried, work, snap>>

(* A child hashes the files when it starts, watches them once it listens,  *)
(* and ends wherever it is.  An edit in between raises no event.           *)
LiveStarts ==
  /\ gen = 0
  /\ gen' = files
  /\ tried' = IF snap = None THEN {} ELSE {snap.gen}
  /\ UNCHANGED <<files, newest, watch, work, snap>>

WatchStarts == gen # 0 /\ watch' = "on" /\ UNCHANGED <<files, newest, gen, tried, work, snap>>

LiveEnds ==
  /\ gen' = 0 /\ watch' = "off" /\ tried' = {} /\ work' = None
  /\ UNCHANGED <<files, newest, snap>>

(* The watch's debounced recompute; pages are told to load the new files.  *)
MutantRecompute ==
  /\ watch = "due"
  /\ UNCHANGED staticVars

Recompute ==
  /\ watch = "due"
  /\ watch' = "on"
  /\ gen' = files
  /\ UNCHANGED <<files, newest, tried, work, snap>>

(* A page has rendered the generation: each is copied at most once.  A     *)
(* second copy may begin while one is under way; it is left out.           *)
ClientReady ==
  /\ watch # "off" /\ gen \notin tried /\ work = None
  /\ tried' = tried \cup {gen}
  /\ work' = [gen |-> gen, half |-> <<files>>]
  /\ UNCHANGED <<files, newest, gen, watch, snap>>

(* The second half; a copy that does not hash to the generation is dropped. *)
MutantCopied ==
  /\ work # None /\ Len(work.half) = 1
  /\ work' = [work EXCEPT !.half = Append(@, files)]
  /\ UNCHANGED <<files, newest, gen, watch, tried, snap>>

Copied ==
  /\ work # None /\ Len(work.half) = 1
  /\ work' = IF work.half = <<work.gen>> /\ files = work.gen
             THEN [work EXCEPT !.half = Append(@, files)] ELSE None
  /\ UNCHANGED <<files, newest, gen, watch, tried, snap>>

(* The two renames.                                                        *)
StepsAside ==
  /\ work # None /\ Len(work.half) = 2 /\ snap # None
  /\ snap' = None
  /\ UNCHANGED <<files, newest, gen, watch, tried, work>>

RenamedIn ==
  /\ work # None /\ Len(work.half) = 2 /\ snap = None
  /\ snap' = work
  /\ work' = None
  /\ UNCHANGED <<files, newest, gen, watch, tried>>

WriterStep == Copied \/ StepsAside \/ RenamedIn
StaticStep == Recompute \/ ClientReady \/ WriterStep

(* "A half-written snapshot never exists": its files are all of the        *)
(* generation that it says, and so was the page that rendered them.        *)
SnapshotWhole == snap # None => snap.half = <<snap.gen, snap.gen>>

(* A child that stays up has a snapshot sooner or later, whatever died     *)
(* between the two renames, but while its files are not those it has       *)
(* hashed and no event has told it, as after an edit before its watch.     *)
Untold == watch = "on" /\ gen # files
SnapshotReturns == gen # 0 ~> gen = 0 \/ snap # None \/ Untold

=============================================================================
