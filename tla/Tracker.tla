------------------------------ MODULE Tracker ------------------------------
(***************************************************************************)
(* The checkpoint tracker (src/pkg/state/tracker.go).  Publishers report   *)
(* the positions of durably published events in any order; the tracker     *)
(* keeps the position of the highest SeqNo N such that 1..N have all been  *)
(* reported.  Every method holds t.mu throughout, so each is one step.     *)
(*                                                                         *)
(* A Position is its SeqNo and the resume coordinate the source stamped on *)
(* the event; a batch of positions is a function from SeqNos to            *)
(* coordinates (the sink reports each event of a run at most once).        *)
(***************************************************************************)
EXTENDS Naturals, Functions

CONSTANTS
    MaxSeq,     \* bound on the SeqNos of one run (uint64 in the code)
    Coord,      \* resume coordinates: GTID sets, or file and offset
    NoCoord     \* the coordinate of the zero Position{}

ASSUME MaxSeqAssumption == MaxSeq \in Nat

VARIABLES
    next,       \* lowest SeqNo not yet part of the contiguous prefix
    pending,    \* reported positions beyond the prefix, by SeqNo
    ckpt,       \* the committable position
    has,        \* ckpt is a real position
    dirty,      \* ckpt moved since TakeDirty last returned it
    reported,   \* history: every position reported so far
    handed      \* history: SeqNo last returned by TakeDirty and not given back

trackerVars == <<next, pending, ckpt, has, dirty>>
vars == <<next, pending, ckpt, has, dirty, reported, handed>>

SeqNo == 1..MaxSeq
ZeroPosition == [SeqNo |-> 0, coord |-> NoCoord]

\* The batches a publisher may report: some events, each with a coordinate.
Batches == UNION {[S -> Coord] : S \in SUBSET SeqNo}

\* Map update: the entries of ps are stored over those of f.
Put(f, ps) ==
    [s \in DOMAIN f \cup DOMAIN ps |-> IF s \in DOMAIN ps THEN ps[s] ELSE f[s]]

----------------------------------------------------------------------------
(* NewTracker *)
TrackerInit ==
    /\ next = 1
    /\ pending = <<>>
    /\ ckpt = ZeroPosition
    /\ has = FALSE
    /\ dirty = FALSE

Init == TrackerInit /\ reported = <<>> /\ handed = 0

\* Mutant: the checkpoint jumps over a hole to the highest reported SeqNo.
advanceOverHole(p) ==
    \E n \in next..(MaxSeq + 1) :
        /\ n - 1 = next - 1 \/ n - 1 \in DOMAIN p
        /\ \A s \in DOMAIN p : s < n
        /\ next' = n
        /\ pending' = Restrict(p, {s \in DOMAIN p : s >= n})
        /\ IF n = next
           THEN UNCHANGED <<ckpt, has, dirty>>
           ELSE /\ ckpt' = [SeqNo |-> n - 1, coord |-> p[n - 1]]
                /\ has' = TRUE
                /\ dirty' = TRUE

\* Mutant: delete(t.pending, t.next) is forgotten.
advanceKeepsPending(p) ==
    \E n \in next..(MaxSeq + 1) :
        /\ next..(n - 1) \subseteq DOMAIN p
        /\ n \notin DOMAIN p
        /\ next' = n
        /\ pending' = p
        /\ IF n = next
           THEN UNCHANGED <<ckpt, has, dirty>>
           ELSE /\ ckpt' = [SeqNo |-> n - 1, coord |-> p[n - 1]]
                /\ has' = TRUE
                /\ dirty' = TRUE

\* Mutant: t.next runs one past the missing SeqNo.
advanceOneTooFar(p) ==
    \E n \in next..(MaxSeq + 1) :
        /\ next..(n - 1) \subseteq DOMAIN p
        /\ n \notin DOMAIN p
        /\ next' = n + 1
        /\ pending' = Restrict(p, DOMAIN p \ (next..(n - 1)))
        /\ IF n = next
           THEN UNCHANGED <<ckpt, has, dirty>>
           ELSE /\ ckpt' = [SeqNo |-> n - 1, coord |-> p[n - 1]]
                /\ has' = TRUE
                /\ dirty' = TRUE

(* advance: move the checkpoint across the completed prefix of the map p,  *)
(* up to the first SeqNo n that is missing from it.                        *)
advance(p) ==
    \E n \in next..(MaxSeq + 1) :
        /\ next..(n - 1) \subseteq DOMAIN p
        /\ n \notin DOMAIN p
        /\ next' = n
        /\ pending' = Restrict(p, DOMAIN p \ (next..(n - 1)))
        /\ IF n = next
           THEN UNCHANGED <<ckpt, has, dirty>>
           ELSE /\ ckpt' = [SeqNo |-> n - 1, coord |-> p[n - 1]]
                /\ has' = TRUE
                /\ dirty' = TRUE

(* Done and DoneBatch: a batch is stored as a whole before advance runs;   *)
(* Done is the batch of one position, and an empty batch returns early.    *)
DoneBatch(ps) ==
    /\ DOMAIN ps # {}
    /\ advance(Put(pending, ps))

(* TakeDirty, when it returns a position (otherwise it changes nothing). *)
TakeDirty ==
    /\ dirty
    /\ dirty' = FALSE
    /\ UNCHANGED <<next, pending, ckpt, has>>

\* Mutant: the flag is not set again after a failed save.
RedirtyForgets ==
    /\ has
    /\ UNCHANGED trackerVars

(* Redirty, when there is a checkpoint (otherwise it changes nothing). *)
Redirty ==
    /\ has
    /\ dirty' = TRUE
    /\ UNCHANGED <<next, pending, ckpt, has>>

----------------------------------------------------------------------------
(* The tracker under the contract of its callers: the sink reports every   *)
(* event of the run at most once, and the committer gives a checkpoint     *)
(* back only after having taken it.                                        *)
ReportBatch(ps) ==
    /\ DOMAIN ps \cap DOMAIN reported = {}
    /\ DoneBatch(ps)
    /\ reported' = Put(reported, ps)
    /\ UNCHANGED handed

CommitterTakes ==
    /\ TakeDirty
    /\ handed' = ckpt.SeqNo
    /\ UNCHANGED reported

CommitterGivesBack ==
    /\ handed # 0
    /\ Redirty
    /\ handed' = 0
    /\ UNCHANGED reported

Next ==
    \/ \E ps \in Batches : ReportBatch(ps)
    \/ CommitterTakes
    \/ CommitterGivesBack

Spec == Init /\ [][Next]_vars

----------------------------------------------------------------------------
\* Positions are SeqNos with a coordinate, or the zero Position; the maps are
\* partial functions from SeqNos to coordinates (fields of Tracker).
TypeOK ==
    /\ next \in 1..(MaxSeq + 1)
    /\ pending \in Batches
    /\ reported \in Batches
    /\ ckpt \in [SeqNo : 0..MaxSeq, coord : Coord \cup {NoCoord}]
    /\ has \in BOOLEAN
    /\ dirty \in BOOLEAN
    /\ handed \in 0..MaxSeq

\* The Tracker's contract (tracker.go:5-11): the checkpoint is the position of
\* the HIGHEST SeqNo N such that every event 1..N has been reported, however
\* the publishers' reports interleave; there is none while event 1 is missing.
CheckpointIsHighestPrefix ==
    /\ 1..(next - 1) \subseteq DOMAIN reported
    /\ next \notin DOMAIN reported
    /\ has <=> (next > 1)
    /\ has => ckpt = [SeqNo |-> next - 1, coord |-> reported[next - 1]]

\* Outstanding() counts exactly the reported events that wait for an earlier
\* one: advance deletes every entry it passes, so a drained run holds none.
PendingIsRest ==
    pending = Restrict(reported, {s \in DOMAIN reported : s > next})

\* A checkpoint that was never handed to the committer, or that the committer
\* gave back after a failed save (Redirty), is still marked dirty: on an idle
\* stream the next tick retries it.
DirtyUntilTaken ==
    (has /\ handed # ckpt.SeqNo) => dirty

\* The conjunction the proofs carry through every step.
Inv == TypeOK /\ CheckpointIsHighestPrefix /\ PendingIsRest /\ DirtyUntilTaken
=============================================================================
