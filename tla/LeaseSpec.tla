----------------------------- MODULE LeaseSpec ------------------------------
(***************************************************************************)
(* What the access service promises: one table, changed by one operation at *)
(* a time, each applied to the table the previous one left.  What an        *)
(* operation may do is a relation between two tables.                       *)
(***************************************************************************)
CONSTANTS Empty,          \* the table a server begins with
          Operates(_, _)  \* the operations

VARIABLE table

SpecInit == table = Empty

SpecNext ==
    /\ table' # table
    /\ Operates(table, table')

AtomicSpec == SpecInit /\ [][SpecNext]_table

=============================================================================
