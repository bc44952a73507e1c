--------------------------- MODULE AddressSpaces ---------------------------
(***************************************************************************)
(* What processes may expect of their address spaces: each has the page    *)
(* tables that a new space inherits, the same for all, and keeps them      *)
(* until it is discarded.  Creating a space, or discarding one, changes no *)
(* other and no table.                                                     *)
(***************************************************************************)
EXTENDS Integers, Functions

CONSTANTS
    Frame,  \* 0 and up; positive ones also name spaces and the kernel's table
    Index   \* of a table in a space, and of a page in a table

VARIABLES
    kernel,     \* the kernel's space, or 0 if there is none
    inherited,  \* the tables that a new space gets; 0 where there is none
    tables,     \* the tables of each live space
    pages       \* the pages of the kernel's table; -1 where none is mapped

None  == [i \in Index |-> 0]
Fresh == Frame \ ({0} \cup DOMAIN tables \cup DOMAIN pages)
With(f, x, v) == [y \in DOMAIN f \cup {x} |-> IF y = x THEN v ELSE f[y]]

Init ==
    /\ kernel = 0
    /\ inherited \in [Index -> Index]
    /\ tables = [s \in {} |-> None] /\ pages = [t \in {} |-> None]

Start ==
    /\ kernel = 0 /\ DOMAIN tables = {}
    /\ \E s, t \in Fresh :
          /\ s # t
          /\ kernel' = s
          /\ inherited' = [None EXCEPT ![0] = t]
          /\ tables' = With(tables, s, [None EXCEPT ![0] = t])
          /\ pages' = With(pages, t, [p \in Index |-> p])

Create ==
    /\ \E s \in Fresh : tables' = With(tables, s, inherited)
    /\ UNCHANGED <<kernel, inherited, pages>>

Discard ==
    /\ \E s \in DOMAIN tables \ {kernel} :
          tables' = Restrict(tables, DOMAIN tables \ {s})
    /\ UNCHANGED <<kernel, inherited, pages>>

Next == Start \/ Create \/ Discard

Spec == Init /\ [][Next]_<<kernel, inherited, tables, pages>>
=============================================================================
