-------------------------- MODULE DescriptorTable --------------------------
(***************************************************************************)
(* The kernel's view of the descriptors kc-flow works with, as far as      *)
(* compat-fd.c and artifact.c use it.  A table maps a descriptor number to *)
(* the open file it names, or to Closed.  dup makes a second number for    *)
(* the SAME open file, so a seek through either moves the offset of both:  *)
(* the offset is kept per open file, never per number.  Numbers are handed *)
(* out lowest first, which is what makes a number that was closed come     *)
(* back under a new owner.                                                 *)
(***************************************************************************)
EXTENDS Integers

CONSTANT Fds       \* descriptor numbers the process may use (RLIMIT_NOFILE)

ASSUME FdsAssumption == Fds \subseteq Nat

Closed == -1       \* table entry of a number that is not in use
NoFd   == -1       \* the code's "no descriptor" value

OpenFds(table) == {f \in Fds : table[f] # Closed}

IsLowest(x, S) == x \in S /\ \A y \in S : x <= y

(* The number the next dup or mkstemp returns; none when the table is full. *)
IsNextFd(table, f) == IsLowest(f, Fds \ OpenFds(table))

Full(table) == OpenFds(table) = Fds

(* Open files are named by numbers of Fds too: a table with a free number  *)
(* leaves at least one of these names unused.                              *)
IsNewFile(table, o) == IsLowest(o, Fds \ {table[f] : f \in Fds})

(* dup(src) returned f. *)
Dup(table, src, f) == [table EXCEPT ![f] = table[src]]

(* mkstemp returned f, an empty regular file nothing else names. *)
Created(table, f, o) == [table EXCEPT ![f] = o]

(* close on every number of S.  Closing a number that is not open changes  *)
(* nothing (EBADF), and neither does releasing NoFd.                       *)
Release(table, S) == [f \in Fds |-> IF f \in S THEN Closed ELSE table[f]]
============================================================================
