------------------------------ MODULE RowClocks ------------------------------
(***************************************************************************)
(* Arbitration of one row: crdt.Stamp, crdt.RowState and the operators of  *)
(* crdt/identity.go and crdt/state.go on them.                             *)
(*                                                                         *)
(* A Clock is a natural number: the code compares (WallTime, Logical)      *)
(* lexicographically, and only the order matters here.  An origin is a     *)
(* positive number, as in the code.                                        *)
(***************************************************************************)
EXTENDS Integers

Stamp == [clk : Nat, origin : Nat]

ZeroStamp == [clk |-> 0, origin |-> 0]

Dominates(s, t) ==
  \/ s.clk > t.clk
  \/ s.clk = t.clk /\ s.origin > t.origin

\* The causal length cl and the stamp of the write that set it.
RowState == [cl : Nat, base : Stamp]

NeverExisted == [cl |-> 0, base |-> ZeroStamp]

IsLive(rs) == rs.cl % 2 = 1

DominatedBy(rs, cl, s) ==
  \/ cl > rs.cl
  \/ cl = rs.cl /\ Dominates(s, rs.base)

\* An insert or update keeps a live row's generation and opens the next one otherwise.
NextLiveCL(rs) == IF IsLive(rs) THEN rs.cl ELSE rs.cl + 1

\* A delete of a row that is not live takes the number down.
MutNextTombCL(rs) == IF IsLive(rs) THEN rs.cl + 1 ELSE rs.cl - 1

\* A delete closes a live generation; otherwise it keeps the number.
NextTombCL(rs) == IF IsLive(rs) THEN rs.cl + 1 ELSE rs.cl

\* The last writer in time wins.
MutPutRowState(prev, st) == st

\* Cache.PutRowState never regresses.
PutRowState(prev, st) == IF DominatedBy(prev, st.cl, st.base) THEN st ELSE prev

\* The row state a changeset's record establishes.
StateOf(rec) == [cl |-> rec.cl, base |-> rec.stamp]
=============================================================================
