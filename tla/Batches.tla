-------------------------------- MODULE Batches --------------------------------
(***************************************************************************)
(* Batches of mutations, as the promise WriteQueue and the implementation  *)
(* WritePipeline know them: whose they are, and what the server makes of   *)
(* them.  Only the order in which their last application leaves them       *)
(* matters, for it decides what the documents hold.                        *)
(***************************************************************************)
EXTENDS Naturals, Sequences

CONSTANTS
    Users,       \* accounts, each with a mutation queue of its own
    MaxBatches,  \* bound on the batches written
    Author       \* whose each batch is

BatchIds == 1..MaxBatches

ASSUME BatchesAssumption == MaxBatches \in Nat
ASSUME AuthorAssumption == Author \in [BatchIds -> Users]

(* What the app can be told about a batch.                                     *)
Outcomes == {"none", "ok", "error"}

(* What the server holds: for every batch that it has applied, the batches that *)
(* were last applied before that batch was.                                    *)
Servers == UNION {[S -> SUBSET BatchIds] : S \in SUBSET BatchIds}
NothingApplied == [b \in {} |-> {}]

(* A batch that is applied, again perhaps, comes to lie on top.                *)
WithApplied(server, b) ==
    [c \in DOMAIN server \cup {b} |->
        IF c = b THEN DOMAIN server \ {b} ELSE server[c] \ {b}]
=============================================================================
