------------------------------ MODULE FileStore ------------------------------
(***************************************************************************)
(* What the in-memory flat file system promises, with no device: a store   *)
(* that maps each file key to the bytes saved under it.  A key is a file   *)
(* name up to letter case.  Every operation answers with a reply, and      *)
(* changes the store only in the step that answers it; the steps in        *)
(* between (the blocks of a save, the moves of a defragmentation) do not   *)
(* change what the store holds.                                            *)
(*                                                                         *)
(* Spec is the promise.  LossySpec says how far it is broken when memory   *)
(* fails: a rename may lose its file, and nothing else goes wrong.         *)
(***************************************************************************)
EXTENDS Integers, Sequences

CONSTANTS
  Keys,           \* names up to letter case
  Contents,       \* what a disk file can hold, [bytes, chunks]
  NoFile,         \* the store has no file under this key
  MemoryMayFail   \* a malloc may return NULL

VARIABLES
  store,          \* [Keys -> Contents \cup {NoFile}]
  reply           \* the answer of the last operation

vars == <<store, reply>>

Reply(op, key, result, out) ==
  [op |-> op, key |-> key, result |-> result, out |-> out, rows |-> {}]

NoOutput == [bytes |-> 0, chunks |-> <<>>]
NoReply == Reply("none", NoFile, "OK", NoOutput)

Stored == {k \in Keys : store[k] # NoFile}

Init ==
  /\ store = [k \in Keys |-> NoFile]
  /\ reply = NoReply

\* A save or a defragmentation has started and has not answered yet.
Accept ==
  /\ reply' = NoReply
  /\ UNCHANGED store

\* Any operation may be refused, and then it has no effect.
Refuse(op, k) ==
  /\ reply' = Reply(op, k, "ERROR", NoOutput)
  /\ UNCHANGED store

Save(k) ==
  /\ reply' = Reply("save", k, "OK", NoOutput)
  /\ k \notin Stored
  /\ \E c \in Contents : store' = [store EXCEPT ![k] = c]

\* The code also answers OK to a save that it rolled back for want of space or
\* after a read error.
SaveRolledBack(k) ==
  /\ reply' = Reply("save", k, "OK", NoOutput)
  /\ k \notin Stored
  /\ UNCHANGED store

Load(k) ==
  /\ reply' = Reply("load", k, "OK", store[k])
  /\ k \in Stored
  /\ UNCHANGED store

Delete(k) ==
  /\ reply' = Reply("delete", k, "OK", NoOutput)
  /\ k \in Stored
  /\ store' = [store EXCEPT ![k] = NoFile]

Rename(old, new) ==
  /\ reply' = Reply("rename", new, "OK", NoOutput)
  /\ old \in Stored
  /\ new \notin Stored
  /\ store' = [store EXCEPT ![new] = store[old], ![old] = NoFile]

\* Without memory for the new name, the code answers OK and the file is gone.
\* This is no part of the promise: see LossySpec.
RenameLosesFile(old, new) ==
  /\ reply' = Reply("rename", new, "OK", NoOutput)
  /\ MemoryMayFail
  /\ old \in Stored
  /\ new \notin Stored
  /\ store' = [store EXCEPT ![old] = NoFile]

List ==
  /\ reply' = [Reply("dir", NoFile, "OK", NoOutput)
                 EXCEPT !.rows = {<<k, store[k].bytes>> : k \in Stored}]
  /\ UNCHANGED store

Defragment ==
  /\ reply' = Reply("defrag", NoFile, "OK", NoOutput)
  /\ UNCHANGED store

Destroy ==
  /\ reply' = Reply("destroy", NoFile, "OK", NoOutput)
  /\ store' = [k \in Keys |-> NoFile]

Next ==
  \/ Accept
  \/ \E op \in {"save", "load", "delete", "rename", "defrag"}, k \in Keys \cup {NoFile} :
       Refuse(op, k)
  \/ \E k \in Keys : Save(k) \/ SaveRolledBack(k) \/ Load(k) \/ Delete(k)
  \/ \E old, new \in Keys : Rename(old, new)
  \/ List
  \/ Defragment
  \/ Destroy

Spec == Init /\ [][Next]_vars

LossyNext == Next \/ \E old, new \in Keys : RenameLosesFile(old, new)

LossySpec == Init /\ [][LossyNext]_vars
=============================================================================
