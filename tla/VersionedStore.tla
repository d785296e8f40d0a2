---------------------------- MODULE VersionedStore ----------------------------
(***************************************************************************)
(* What a store of versioned values promises, without seal, status, timers *)
(* or calls in flight: every write makes one new version and keeps the     *)
(* number of the one it replaces, and the value that can be read is that   *)
(* of the newest version or erased.  VoidVault implements it.              *)
(***************************************************************************)
EXTENDS Naturals, Sequences

CONSTANT Erased     \* what is left of a value that was erased

VARIABLE items      \* the items in the order they were stored

(* An item: its past versions, its newest version, and the version whose     *)
(* value is stored.                                                          *)
FirstVersion == [past |-> <<>>, newest |-> 1, value |-> 1]
NextVersion(x) == [past |-> Append(x.past, x.newest), newest |-> x.newest + 1, value |-> x.newest + 1]
Emptied(x) == [past |-> x.past, newest |-> x.newest, value |-> Erased]

SInit == items = <<>>

Store == items' = Append(items, FirstVersion)
Write(i) == items' = [items EXCEPT ![i] = NextVersion(@)]
Erase(i) == items' = [items EXCEPT ![i] = Emptied(@)]

SNext == Store \/ \E i \in DOMAIN items : Write(i) \/ Erase(i)

SSpec == SInit /\ [][SNext]_items
===============================================================================
