---------------------------- MODULE MCPruneScan ----------------------------
(* The prune scan over every short source and keep database. *)
EXTENDS PruneScan

Record(hash32, match, foreign, size) ==
    [src |-> TRUE, keep |-> "no", hash32 |-> hash32, match |-> match,
     foreign |-> foreign, size |-> size]

(* Absent; kept, conflicting and missing state; candidates that are small, worth
   a dispatch and oversize; unknown, protected and foreign records. *)
MCKinds == {
    [Record(TRUE, TRUE, FALSE, 1) EXCEPT !.src = FALSE],
    [Record(TRUE, TRUE, FALSE, 2) EXCEPT !.keep = "same"],
    [Record(TRUE, TRUE, FALSE, 1) EXCEPT !.keep = "differs"],
    [Record(TRUE, TRUE, FALSE, 1) EXCEPT !.src = FALSE, !.keep = "same"],
    Record(TRUE, TRUE, FALSE, 2),
    Record(TRUE, TRUE, FALSE, 9),
    Record(TRUE, FALSE, FALSE, 3),
    Record(TRUE, FALSE, TRUE, 2),
    Record(FALSE, FALSE, FALSE, 1),
    Record(FALSE, FALSE, TRUE, 1) }

(* Records that keep the classifiers busy, and one that has to wait for them. *)
MCBusyKinds == {
    [Record(TRUE, TRUE, FALSE, 1) EXCEPT !.src = FALSE, !.keep = "same"],
    Record(TRUE, TRUE, FALSE, 2),
    Record(TRUE, FALSE, TRUE, 2),
    Record(FALSE, FALSE, FALSE, 9) }

(* One classifier and a two-slot ring that wraps around, and two classifiers
   whose results arrive out of order. *)
MCScans == {
    [execution |-> [workers |-> 1, scanBytes |-> 4], keys |-> 3, kinds |-> MCKinds],
    [execution |-> [workers |-> 3, scanBytes |-> 6], keys |-> 4, kinds |-> MCBusyKinds] }
=============================================================================
