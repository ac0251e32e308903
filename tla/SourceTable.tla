---- MODULE SourceTable ----
(***************************************************************************)
(* srcinfo.c: what a DPI daemon remembers of the peers it has heard.  The  *)
(* records lie in a ring; the newest replaces the oldest.                  *)
(***************************************************************************)
EXTENDS Integers, Sequences

CONSTANT CAPACITY

ASSUME CapacityAssumption == CAPACITY \in Nat \ {0}

VARIABLES
    srci, srci_end,
    heard          \* history: all that has been put, in order

table == <<srci, srci_end, heard>>

Unused == [initialized |-> FALSE]

srcinfo_setup ==
    /\ srci = [s \in 0..CAPACITY - 1 |-> Unused] /\ srci_end = 0
    /\ heard = <<>>

\* The port is no part of it.
sameip(a, b) == a.family = b.family /\ a.host = b.host

\* Variant: the end runs on past the last slot.
srcinfo_put_on(info) ==
    /\ srci' = [srci EXCEPT ![srci_end] = info]
    /\ srci_end' = srci_end + 1
    /\ heard' = Append(heard, info)
\* An entry has .initialized = TRUE.
srcinfo_put(info) ==
    /\ srci' = [srci EXCEPT ![srci_end] = info]
    /\ srci_end' = (srci_end + 1) % CAPACITY
    /\ heard' = Append(heard, info)

\* Variant: the walk begins with the slot that is written next.
SlotFromEnd(i) == srci[(srci_end + CAPACITY - i) % CAPACITY]
\* The slot that the walk looks at after i others.
Slot(i) == srci[(srci_end + CAPACITY - i - 1) % CAPACITY]

\* The walk ends there with a result.
FoundAt(a, i) ==
    /\ Slot(i).initialized /\ sameip(a, Slot(i).addr)
    /\ \A j \in 0..i - 1 : Slot(j).initialized /\ ~sameip(a, Slot(j).addr)

srcinfo_available(a) == \E i \in 0..CAPACITY - 1 : FoundAt(a, i)
srcinfo_get(a) == Slot(CHOOSE i \in 0..CAPACITY - 1 : FoundAt(a, i))

---------------------------------------------------------------------------

\* heard[k] is the last that was heard of the address, and not so long ago that
\* it has been overwritten.
NewestOf(a, k) ==
    /\ k > Len(heard) - CAPACITY /\ sameip(a, heard[k].addr)
    /\ \A m \in k + 1..Len(heard) : ~sameip(a, heard[m].addr)
====
