------------------------------- MODULE TxStore -------------------------------
(***************************************************************************)
(* What a storage with one writer promises, without files, slots or        *)
(* sequence numbers.  The writer works on "work"; "committed" is what a    *)
(* rollback returns to; "published" is what readers in other processes     *)
(* see, which may lag behind committed.                                    *)
(***************************************************************************)
CONSTANTS Serials, Values, NoValue

VARIABLES committed, work, published

tvars == <<committed, work, published>>

Snapshot == [Serials -> Values \cup {NoValue}]

TTypeOK == /\ committed \in Snapshot
           /\ work \in Snapshot
           /\ published \in Snapshot

TInit == /\ committed = [s \in Serials |-> NoValue]
         /\ work = committed
         /\ published = committed

(* A write inside a transaction publishes the transactions before it.      *)
TWrite(s, v) == /\ work' = [work EXCEPT ![s] = v]
                /\ published' = committed
                /\ UNCHANGED committed

(* A write in auto-commit mode is a transaction of its own.                *)
TAutoWrite(s, v) == /\ work = committed
                    /\ committed' = [committed EXCEPT ![s] = v]
                    /\ work' = committed'
                    /\ published' = committed'

(* A commit takes effect whole, at once; other processes may see it later. *)
TCommit == /\ committed' = work
           /\ published' \in {published, committed'}
           /\ UNCHANGED work

TRollback == /\ work' = committed
             /\ published' \in {published, committed}
             /\ UNCHANGED committed

TClose == /\ work' = committed
          /\ published' = committed
          /\ UNCHANGED committed

TNext == \/ \E s \in Serials, v \in Values : TWrite(s, v) \/ TAutoWrite(s, v)
         \/ TCommit
         \/ TRollback
         \/ TClose

TSpec == TInit /\ [][TNext]_tvars
=============================================================================
