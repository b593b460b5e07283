--------------------------- MODULE TableStore_proofs ---------------------------
(***************************************************************************)
(* What a statement leaves, for every set of statements, and also where a  *)
(* crash or a full storage cuts a write short:                             *)
(*                                                                         *)
(*   - one that fails leaves the files as they were: a failed CREATE       *)
(*     removes the one it made, and INSERT has read all it needs before it *)
(*     writes;                                                             *)
(*   - the tuples there were are still found: no byte of a file that was   *)
(*     there is lost or changed, and what is read from the bytes in front  *)
(*     does not depend on those behind;                                    *)
(*   - the header of a table says what the statement that made it says:    *)
(*     the attributes are what the tokens read so far declare, their       *)
(*     descriptions are laid one behind the other, and each is found where *)
(*     the ones before it end;                                             *)
(*   - a table has the rows that were inserted and no byte of another: a   *)
(*     row takes as many bytes as its attributes have, and what is in the  *)
(*     file and what is still to be written are together the rows there    *)
(*     will be.                                                            *)
(***************************************************************************)
EXTENDS TableStore, WellFoundedInduction, TLAPS

Creates == {"bracket", "declare"}
Inserts == {"columns?", "columns", "values?", "values"}

FilesTyped == files = [t \in DOMAIN files |-> files[t]]

WhichCommand ==
  /\ pc \in {"idle", "write"} \cup Creates \cup Inserts
  /\ pc \in Creates => stmt.command = "CREATE"
  /\ pc \in Inserts => stmt.command = "INSERT"

\* CREATE has only added its file to those there were, ...
OneMore ==
  pc # "idle" /\ stmt.command = "CREATE" => Without = before

\* ... and INSERT nothing, until it writes.
NothingYet == pc \in Inserts => files = before

IInv == FilesTyped /\ WhichCommand /\ OneMore /\ NothingYet /\ FailedLeavesNothing

\* What a file is added to, or cut to, does not matter to the others.
LEMMA OthersKept ==
  ASSUME FilesTyped, NEW f
  PROVE  LET g == [files EXCEPT ![table] = f]
         IN /\ g = [t \in DOMAIN g |-> g[t]]
            /\ DOMAIN g = DOMAIN files
            /\ [t \in DOMAIN g \ {table} |-> g[t]] = Without
  BY DEF FilesTyped, Without

\* Where a statement is given up, it has left nothing.
LEMMA Discarded ==
  ASSUME IInv, pc # "idle", stmt.command = "CREATE", Discard
  PROVE  IInv'
<1>1. /\ pc' = "idle" /\ files' = Without /\ before' = before
  BY DEF Discard, Removed, Finish
<1>2. files' = before'
  BY <1>1 DEF IInv, OneMore
<1>3. FilesTyped'
  BY <1>1 DEF FilesTyped, Without
<1> QED
  BY <1>1, <1>2, <1>3 DEF IInv, WhichCommand, OneMore, NothingYet,
     FailedLeavesNothing, Creates, Inserts

LEMMA Failed ==
  ASSUME IInv, pc \in Inserts, Fail
  PROVE  IInv'
<1>1. /\ pc' = "idle" /\ files' = files /\ before' = before
  BY DEF Fail, Finish
<1>2. files' = before'
  BY <1>1 DEF IInv, NothingYet
<1>3. FilesTyped'
  BY <1>1 DEF IInv, FilesTyped
<1> QED
  BY <1>1, <1>2, <1>3 DEF IInv, WhichCommand, OneMore, NothingYet,
     FailedLeavesNothing, Creates, Inserts

\* A step that goes on with the statement and leaves the files alone.
LEMMA GoesOn ==
  ASSUME IInv, pc # "idle",
         UNCHANGED <<files, stmt, before>>,
         \/ pc \in Creates /\ pc' \in Creates \cup {"write"}
         \/ pc \in Inserts /\ pc' \in Inserts \cup {"write"}
  PROVE  IInv'
<1>1. FilesTyped'
  BY DEF IInv, FilesTyped
<1>2. WhichCommand'
  BY DEF IInv, WhichCommand, Creates, Inserts
<1>3. OneMore'
  BY DEF IInv, OneMore, Without, table
<1>4. NothingYet' /\ FailedLeavesNothing'
  BY DEF IInv, NothingYet, FailedLeavesNothing, Idle, Creates, Inserts
<1> QED
  BY <1>1, <1>2, <1>3, <1>4 DEF IInv

\* A step of the writing.
LEMMA Writes ==
  ASSUME IInv, pc = "write", pc' = "write", UNCHANGED <<stmt, before>>,
         NEW f, files' = [files EXCEPT ![table] = f]
  PROVE  IInv'
<1>1. FilesTyped' /\ Without' = Without
  BY OthersKept DEF IInv, FilesTyped, Without, table
<1>2. WhichCommand' /\ NothingYet' /\ FailedLeavesNothing'
  BY DEF WhichCommand, NothingYet, FailedLeavesNothing, Idle, Creates, Inserts
<1>3. OneMore'
  BY <1>1 DEF IInv, OneMore
<1> QED
  BY <1>1, <1>2, <1>3 DEF IInv

\* A statement that ended otherwise.
LEMMA Ended ==
  ASSUME IInv, pc' = "idle", outcome' # "error", FilesTyped'
  PROVE  IInv'
  BY DEF IInv, WhichCommand, OneMore, NothingYet, FailedLeavesNothing,
     Creates, Inserts

\* A statement that was refused at once.
LEMMA Refused ==
  ASSUME IInv, pc = "idle", BeginFails, before' = files
  PROVE  IInv'
  BY DEF IInv, BeginFails, FilesTyped, WhichCommand, OneMore, NothingYet,
     FailedLeavesNothing, Creates, Inserts

LEMMA FileCreated ==
  ASSUME IInv, NEW s \in Statements, CreateFile(s)
  PROVE  IInv'
<1>1. pc = "idle" /\ before' = files /\ s.command = "CREATE"
  BY DEF CreateFile, Begin
<1>2. CASE BeginFails
  BY <1>1, <1>2, Refused
<1>3. CASE /\ s.table \notin DOMAIN files
           /\ files' = [t \in DOMAIN files \cup {s.table} |->
                          IF t = s.table THEN <<>> ELSE files[t]]
           /\ stmt' = s
           /\ pc' = "bracket"
  <2>1. FilesTyped'
    BY <1>3 DEF FilesTyped
  <2>2. Without' = [t \in DOMAIN files |-> files[t]]
    BY <1>3 DEF Without, table
  <2>3. OneMore'
    BY <1>1, <2>2 DEF IInv, OneMore, FilesTyped
  <2> QED
    BY <1>1, <1>3, <2>1, <2>3 DEF IInv, WhichCommand, NothingYet,
       FailedLeavesNothing, Idle, Creates, Inserts
<1> QED
  BY <1>2, <1>3 DEF CreateFile

LEMMA InsertBegun ==
  ASSUME IInv, NEW s \in Statements, InsertInto(s)
  PROVE  IInv'
<1>1. pc = "idle" /\ before' = files /\ s.command = "INSERT"
  BY DEF InsertInto, Begin
<1>2. CASE BeginFails
  BY <1>1, <1>2, Refused
<1>3. CASE /\ files' = [files EXCEPT ![s.table] = Opened(s.table)]
           /\ stmt' = s
           /\ pc' = "columns?"
  <2>1. files' = files
    BY <1>3 DEF IInv, FilesTyped, Opened
  <2> QED
    BY <1>1, <1>3, <2>1 DEF IInv, FilesTyped, WhichCommand, OneMore, NothingYet,
       FailedLeavesNothing, Idle, Creates, Inserts
<1>4. CASE outcome' = "error" /\ UNCHANGED <<files, stmt, pc>>
  BY <1>1, <1>4 DEF IInv, FilesTyped, WhichCommand, OneMore, NothingYet,
     FailedLeavesNothing, Idle, Creates, Inserts
<1>5. CASE /\ outcome' = "ok" /\ UNCHANGED <<stmt, pc>>
           /\ \E junk \in {<<>>, <<0>>} :
                files' = [files EXCEPT ![s.table] = @ \o junk]
  <2>1. FilesTyped'
    BY <1>5 DEF IInv, FilesTyped
  <2> QED
    BY <1>1, <1>5, <2>1, Ended
<1> QED
  BY <1>2, <1>3, <1>4, <1>5 DEF InsertInto

-----------------------------------------------------------------------------
LEMMA Initially == Init => IInv
  BY DEF Init, IInv, FilesTyped, WhichCommand, OneMore, NothingYet,
     FailedLeavesNothing, Creates, Inserts

LEMMA Inductive == IInv /\ [Next]_vars => IInv'
<1> SUFFICES ASSUME IInv, [Next]_vars PROVE IInv'
  OBVIOUS
<1> USE DEF Creates, Inserts
<1>1. CASE \E s \in Statements : CreateFile(s) \/ InsertInto(s)
  BY <1>1, FileCreated, InsertBegun
<1>2. CASE Bracket
  <2>1. stmt.command = "CREATE" /\ pc = "bracket"
    BY <1>2 DEF IInv, WhichCommand, Bracket
  <2>2. CASE Discard
    BY <2>1, <2>2, Discarded
  <2>3. CASE ~Discard
    BY <1>2, <2>1, <2>3, GoesOn DEF Bracket, histVars
  <2> QED
    BY <2>2, <2>3
<1>3. CASE Declare
  BY <1>3, GoesOn DEF Declare, histVars
<1>4. CASE DeclareFails
  BY <1>4, Discarded DEF DeclareFails, IInv, WhichCommand
<1>5. CASE Declarations
  BY <1>5, GoesOn DEF Declarations, histVars
<1>6. CASE CreateEnds
  <2>1. CASE Discard
    BY <1>6, <2>1, Discarded DEF CreateEnds
  <2>2. CASE ~Discard
    <3>1. pc' = "idle" /\ outcome' = "ok" /\ files' = files
      BY <1>6, <2>2 DEF CreateEnds, Finish
    <3> QED
      BY <3>1, Ended DEF IInv, FilesTyped
  <2> QED
    BY <2>1, <2>2
<1>7. CASE Columns
  <2>1. /\ pc = "columns?" /\ pc' \in {"columns", "values?"}
        /\ UNCHANGED <<files, stmt, before>>
    BY <1>7 DEF Columns, histVars
  <2> QED
    BY <2>1, GoesOn
<1>8. CASE Column
  BY <1>8, GoesOn DEF Column, histVars
<1>9. CASE ColumnFails
  BY <1>9, Failed DEF ColumnFails
<1>10. CASE ColumnsEnd
  BY <1>10, Failed, GoesOn DEF ColumnsEnd, histVars
<1>11. CASE Values
  BY <1>11, Failed, GoesOn DEF Values, histVars
<1>12. CASE Value
  BY <1>12, GoesOn DEF Value, histVars
<1>13. CASE ValueFails
  BY <1>13, Failed DEF ValueFails
<1>14. CASE ValuesEnd
  <2>1. CASE Fail
    BY <1>14, <2>1, Failed DEF ValuesEnd
  <2>2. CASE ~Fail
    <3>1. pc = "values" /\ pc' = "write" /\ UNCHANGED <<files, stmt, before>>
      BY <1>14, <2>2 DEF ValuesEnd
    <3> QED
      BY <3>1, GoesOn
  <2> QED
    BY <2>1, <2>2
<1>15. CASE InsertEnds
  <2>1. pc' = "idle" /\ outcome' = "ok" /\ files' = files
    BY <1>15 DEF InsertEnds, Finish
  <2> QED
    BY <2>1, Ended DEF IInv, FilesTyped
<1>16. CASE Write
  <2>1. /\ pc = "write" /\ pc' = "write" /\ UNCHANGED <<stmt, before>>
        /\ files' = [files EXCEPT ![table] = files[table] \o Head(pending)]
    BY <1>16 DEF Write, Added, histVars
  <2> QED
    BY <2>1, Writes
<1>17. CASE Full
  <2>1. PICK k \in 0..(Len(Head(pending)) - 1) :
           files' = [files EXCEPT ![table] =
                       files[table] \o SubSeq(Head(pending), 1, k)]
    BY <1>17 DEF Full, Added
  <2>2. pc = "write" /\ pc' = "write" /\ UNCHANGED <<stmt, before>>
    BY <1>17 DEF Full
  <2> QED
    BY <2>1, <2>2, Writes
<1>18. CASE Crash
  <2>1. pc' = "idle" /\ outcome' = "crash"
    BY <1>18 DEF Crash, Finish
  <2>2. PICK n \in kept..Len(files[table]) :
           files' = [files EXCEPT ![table] = SubSeq(files[table], 1, n)]
    BY <1>18 DEF Crash
  <2>3. FilesTyped'
    BY <2>2 DEF IInv, FilesTyped
  <2> QED
    BY <2>1, <2>3, Ended
<1>19. CASE UNCHANGED vars
  BY <1>19 DEF vars, histVars, IInv, FilesTyped, WhichCommand, OneMore, NothingYet,
     FailedLeavesNothing, Idle, Without, table
<1> QED
  BY <1>1, <1>2, <1>3, <1>4, <1>5, <1>6, <1>7, <1>8, <1>9, <1>10, <1>11, <1>12,
     <1>13, <1>14, <1>15, <1>16, <1>17, <1>18, <1>19 DEF Next

(* A failed CREATE or INSERT leaves every file as it was before it, in     *)
(* every behaviour: the statements before it may have failed, been torn by *)
(* a crash or met a full storage.                                          *)
THEOREM FailureLeavesNothing == Spec => []FailedLeavesNothing
<1>1. IInv => FailedLeavesNothing
  BY DEF IInv
<1> QED
  BY <1>1, Initially, Inductive, PTL DEF Spec

-----------------------------------------------------------------------------
(* Recursion along a sequence, for Sum, FlattenSeq and Starts.              *)
LEMMA Least ==
  ASSUME NEW T, T \subseteq Nat, T # {}
  PROVE  \E x \in T : \A y \in T : ~(y < x)
<1> DEFINE R == {p \in Nat \X Nat : p[1] < p[2]}
<1>1. IsWellFoundedOn(R, Nat)
  BY NatLessThanWellFounded DEF OpToRel
<1>2. PICK x \in T : \A y \in T : ~(<<y, x>> \in R)
  BY <1>1, WFMin
<1>3. \A y \in T : <<y, x>> \in R <=> y < x
  OBVIOUS
<1> QED
  BY <1>2, <1>3

LEMMA SetInduction ==
  ASSUME NEW e \in Nat, NEW S, 1 \in S,
         \A n \in 1..(e - 1) : n \in S => n + 1 \in S
  PROVE  1..e \subseteq S
<1> DEFINE T == (1..e) \ S
<1> SUFFICES ASSUME T # {} PROVE FALSE
  OBVIOUS
<1>0. T \subseteq Nat
  OBVIOUS
<1>1. PICK x \in T : \A y \in T : ~(y < x)
  BY <1>0, Least
<1>2. x # 1 /\ x \in 1..e
  OBVIOUS
<1>3. x - 1 \in 1..(e - 1) /\ x - 1 \in 1..e /\ x - 1 < x /\ (x - 1) + 1 = x
  BY <1>2
<1>4. x - 1 \in S
  BY <1>1, <1>3
<1> QED
  BY <1>3, <1>4

(* A step G from each value to the next one defines a function, ... *)
Iterates(f, n, G, X, x) ==
  /\ f \in [1..n -> X]
  /\ \A k \in 1..n : f[k] = IF k = 1 THEN x ELSE G[k][f[k - 1]]

LEMMA Recursion ==
  ASSUME NEW X, NEW x \in X, NEW e \in Nat, NEW G \in [1..e -> [X -> X]]
  PROVE  \E f : Iterates(f, e, G, X, x)
<1> DEFINE S == {n \in 1..e : \E f : Iterates(f, n, G, X, x)}
<1>0. CASE e = 0
  <2> DEFINE f == [k \in 1..e |-> x]
  <2>1. Iterates(f, e, G, X, x)
    BY <1>0 DEF Iterates
  <2> QED
    BY <2>1
<1>1. CASE e # 0
  <2>1. 1 \in S
    <3> DEFINE f == [k \in 1..1 |-> x]
    <3>1. Iterates(f, 1, G, X, x)
      BY DEF Iterates
    <3> QED
      BY <1>1, <3>1
  <2>2. ASSUME NEW n \in 1..(e - 1), n \in S
        PROVE  n + 1 \in S
    <3>1. PICK f : Iterates(f, n, G, X, x)
      BY <2>2
    <3> DEFINE g == [k \in 1..(n + 1) |-> IF k = n + 1 THEN G[n + 1][f[n]] ELSE f[k]]
    <3>2. g \in [1..(n + 1) -> X]
      BY <3>1 DEF Iterates
    <3>3. ASSUME NEW k \in 1..(n + 1)
          PROVE  g[k] = IF k = 1 THEN x ELSE G[k][g[k - 1]]
      <4>1. CASE k = n + 1
        BY <4>1
      <4>2. CASE k # n + 1
        <5>1. k \in 1..n /\ g[k] = f[k] /\ (k # 1 => g[k - 1] = f[k - 1])
          BY <4>2
        <5> QED
          BY <3>1, <5>1 DEF Iterates
      <4> QED
        BY <4>1, <4>2
    <3> HIDE DEF g
    <3>4. Iterates(g, n + 1, G, X, x)
      BY <3>2, <3>3 DEF Iterates
    <3> QED
      BY <3>4
  <2> HIDE DEF S
  <2>3. 1..e \subseteq S
    BY <2>1, <2>2, SetInduction
  <2>4. e \in S
    BY <1>1, <2>3
  <2> QED
    BY <2>4 DEF S
<1> QED
  BY <1>0, <1>1

(* ... and no two that differ. *)
Same(f, g, n) == \A k \in 1..n : f[k] = g[k]
Alike(f, g, n) ==
  /\ n > 0 => f[1] = g[1]
  /\ \A k \in 2..n : f[k - 1] = g[k - 1] => f[k] = g[k]

LEMMA Agree ==
  ASSUME NEW e \in Nat, NEW f, NEW g, Alike(f, g, e)
  PROVE  Same(f, g, e)
<1> USE DEF Same, Alike
<1> DEFINE S == {k \in 1..e : f[k] = g[k]}
<1>1. CASE e = 0
  BY <1>1
<1>2. CASE e # 0
  <2>1. 1 \in S
    BY <1>2
  <2>2. \A n \in 1..(e - 1) : n \in S => n + 1 \in S
    <3>1. ASSUME NEW n \in 1..(e - 1), n \in S PROVE n + 1 \in S
      <4>1. n + 1 \in 2..e /\ (n + 1) - 1 = n /\ f[n] = g[n]
        BY <3>1
      <4> QED
        BY <4>1
    <3> QED
      BY <3>1
  <2> HIDE DEF S
  <2>3. 1..e \subseteq S
    BY <2>1, <2>2, SetInduction
  <2> QED
    BY <2>3 DEF S
<1> QED
  BY <1>1, <1>2

LEMMA SumInt ==
  ASSUME NEW s \in Seq(Int)
  PROVE  Sum(s) \in Int
<1> DEFINE e == Len(s)
           G == [k \in 1..e |-> [y \in Int |-> y + s[k]]]
           Solves(u) == u = [n \in DOMAIN s |-> IF n = 1 THEN s[1] ELSE u[n - 1] + s[n]]
           u == CHOOSE v : Solves(v)
<1>1. CASE s = <<>>
  BY <1>1 DEF Sum
<1>2. CASE s # <<>>
  <2>1. e \in Nat /\ e > 0 /\ DOMAIN s = 1..e /\ s[1] \in Int
    BY <1>2
  <2>2. G \in [1..e -> [Int -> Int]]
    BY <2>1
  <2>3. \A k \in 1..e, y \in Int : G[k][y] = y + s[k]
    BY <2>1
  <2> HIDE DEF G
  <2>4. PICK f : Iterates(f, e, G, Int, s[1])
    BY <2>1, <2>2, Recursion
  <2>5. /\ f \in [1..e -> Int]
        /\ \A k \in 1..e : f[k] = IF k = 1 THEN s[1] ELSE f[k - 1] + s[k]
    <3>1. f \in [1..e -> Int]
      BY <2>4 DEF Iterates
    <3>2. ASSUME NEW k \in 1..e
          PROVE  f[k] = IF k = 1 THEN s[1] ELSE f[k - 1] + s[k]
      <4>1. k # 1 => f[k - 1] \in Int
        BY <2>1, <3>1
      <4>2. k # 1 => G[k][f[k - 1]] = f[k - 1] + s[k]
        BY <2>3, <4>1
      <4>3. f[k] = IF k = 1 THEN s[1] ELSE G[k][f[k - 1]]
        BY <2>4 DEF Iterates
      <4> QED
        BY <4>2, <4>3
    <3> QED
      BY <3>1, <3>2
  <2>6. f = [n \in DOMAIN s |-> IF n = 1 THEN s[1] ELSE f[n - 1] + s[n]]
    BY <2>1, <2>5
  <2>7. Solves(u)
    BY <2>6
  <2>8. Sum(s) = u[e]
    BY <1>2 DEF Sum
  <2> HIDE DEF u
  <2>9. \A k \in 1..e : u[k] = IF k = 1 THEN s[1] ELSE u[k - 1] + s[k]
    BY <2>1, <2>7
  <2>10. Alike(u, f, e)
    BY <2>1, <2>5, <2>9 DEF Alike
  <2>11. Same(u, f, e)
    BY <2>1, <2>10, Agree
  <2> QED
    BY <2>1, <2>5, <2>8, <2>11 DEF Same
<1> QED
  BY <1>1, <1>2

LEMMA Appended ==
  ASSUME NEW T, NEW e \in Nat, e > 0, NEW ss, Len(ss) = e,
         \A k \in 1..e : ss[k] \in T, \A x, y \in T : x \o y \in T
  PROVE  FlattenSeq(ss) \in T
<1> DEFINE G == [k \in 1..e |-> [y \in T |-> y \o ss[k]]]
           Solves(u) == u = [i \in 1..Len(ss) |-> IF i = 1 THEN ss[i] ELSE u[i - 1] \o ss[i]]
           u == CHOOSE v : Solves(v)
<1>1. G \in [1..e -> [T -> T]]
  OBVIOUS
<1>2. \A k \in 1..e, y \in T : G[k][y] = y \o ss[k]
  OBVIOUS
<1> HIDE DEF G
<1>3. PICK f : Iterates(f, e, G, T, ss[1])
  <2>1. ss[1] \in T
    OBVIOUS
  <2> QED
    BY <1>1, <2>1, Recursion
<1>4. f \in [1..e -> T]
  BY <1>3 DEF Iterates
<1>5. ASSUME NEW k \in 1..e
      PROVE  f[k] = IF k = 1 THEN ss[k] ELSE f[k - 1] \o ss[k]
  <2>1. k # 1 => f[k - 1] \in T
    BY <1>4
  <2>2. k # 1 => G[k][f[k - 1]] = f[k - 1] \o ss[k]
    BY <1>2, <2>1
  <2>3. f[k] = IF k = 1 THEN ss[1] ELSE G[k][f[k - 1]]
    BY <1>3 DEF Iterates
  <2> QED
    BY <2>2, <2>3
<1>6. f = [i \in 1..Len(ss) |-> IF i = 1 THEN ss[i] ELSE f[i - 1] \o ss[i]]
  BY <1>4, <1>5
<1>7. Solves(u)
  BY <1>6
<1>8. FlattenSeq(ss) = u[e]
  BY DEF FlattenSeq
<1> HIDE DEF u
<1>9. \A k \in 1..e : u[k] = IF k = 1 THEN ss[k] ELSE u[k - 1] \o ss[k]
  BY <1>7
<1>10. Alike(u, f, e)
  <2>1. u[1] = f[1]
    BY <1>5, <1>9
  <2>2. ASSUME NEW k \in 2..e, u[k - 1] = f[k - 1] PROVE u[k] = f[k]
    BY <2>2, <1>5, <1>9
  <2> QED
    BY <2>1, <2>2 DEF Alike
<1>11. Same(u, f, e)
  BY <1>10, Agree
<1> QED
  BY <1>4, <1>8, <1>11 DEF Same

LEMMA Flattened ==
  ASSUME NEW X, NEW ss \in Seq(Seq(X))
  PROVE  FlattenSeq(ss) \in Seq(X)
<1>1. CASE Len(ss) = 0
  BY <1>1 DEF FlattenSeq
<1>2. CASE Len(ss) # 0
  <2> DEFINE T == Seq(X)
  <2>1. /\ Len(ss) \in Nat /\ Len(ss) > 0
        /\ \A k \in 1..Len(ss) : ss[k] \in T
        /\ \A x, y \in T : x \o y \in T
    BY <1>2
  <2> HIDE DEF T
  <2>2. FlattenSeq(ss) \in T
    BY <2>1, Appended
  <2> QED
    BY <2>2 DEF T
<1> QED
  BY <1>1, <1>2

-----------------------------------------------------------------------------
(* What is read of a file is not changed by what is added to it.            *)
Prefix(f, g) == Len(f) <= Len(g) /\ \A i \in 1..Len(f) : g[i] = f[i]

LEMMA StartsStep ==
  ASSUME NEW f \in Seq(Nat), f # <<>>
  PROVE  /\ f[1] \in Nat /\ Starts(f) \in [1..(f[1] + 1) -> Nat \ {0}]
         /\ Starts(f)[1] = 2
         /\ \A k \in 2..(f[1] + 1) :
              Starts(f)[k] = IF Starts(f)[k - 1] <= Len(f)
                             THEN Starts(f)[k - 1] + f[Starts(f)[k - 1]] + 4
                             ELSE Len(f) + 2
<1> DEFINE X == Nat \ {0}
           e == f[1] + 1
           Go(p) == IF p <= Len(f) THEN p + f[p] + 4 ELSE Len(f) + 2
           G == [k \in 1..e |-> [p \in X |-> Go(p)]]
           Solves(u) == u = [k \in 1..e |-> IF k = 1 THEN 2 ELSE Go(u[k - 1])]
           u == CHOOSE v : Solves(v)
<1>1. f[1] \in Nat /\ e \in Nat /\ e > 0
  OBVIOUS
<1>2. \A p \in X : Go(p) \in X
  OBVIOUS
<1>3. Starts(f) = u
  BY DEF Starts
<1> HIDE DEF Go, X, e
<1>4. G \in [1..e -> [X -> X]] /\ \A k \in 1..e, y \in X : G[k][y] = Go(y)
  BY <1>2
<1> HIDE DEF G
<1>5. PICK v : Iterates(v, e, G, X, 2)
  <2>1. 2 \in X
    BY DEF X
  <2> QED
    BY <1>1, <1>4, <2>1, Recursion
<1>6. v \in [1..e -> X]
  BY <1>5 DEF Iterates
<1>7. ASSUME NEW k \in 1..e
      PROVE  v[k] = IF k = 1 THEN 2 ELSE Go(v[k - 1])
  <2>1. k # 1 => v[k - 1] \in X
    BY <1>1, <1>6
  <2>2. k # 1 => G[k][v[k - 1]] = Go(v[k - 1])
    BY <1>4, <2>1
  <2>3. v[k] = IF k = 1 THEN 2 ELSE G[k][v[k - 1]]
    BY <1>5 DEF Iterates
  <2> QED
    BY <2>2, <2>3
<1>8. v = [k \in 1..e |-> IF k = 1 THEN 2 ELSE Go(v[k - 1])]
  BY <1>6, <1>7
<1>9. u = [k \in 1..e |-> IF k = 1 THEN 2 ELSE Go(u[k - 1])]
  BY <1>8
<1> HIDE DEF u
<1>10. Alike(u, v, e)
  <2>1. u[1] = v[1]
    BY <1>1, <1>7, <1>9
  <2>2. ASSUME NEW k \in 2..e, u[k - 1] = v[k - 1] PROVE u[k] = v[k]
    BY <1>1, <1>7, <1>9, <2>2
  <2> QED
    BY <2>1, <2>2 DEF Alike
<1>11. Same(u, v, e)
  BY <1>1, <1>10, Agree
<1>12. u \in [1..e -> X]
  <2>1. \A k \in 1..e : u[k] \in X
    BY <1>6, <1>11 DEF Same
  <2> QED
    BY <1>9, <2>1
<1>13. u[1] = 2 /\ \A k \in 2..e : u[k] = Go(u[k - 1])
  BY <1>1, <1>9
<1> QED
  BY <1>1, <1>3, <1>12, <1>13 DEF X, Go, e

\* Where the header is whole, each description in it is within the file.
Within(f, k) ==
  LET p == Starts(f)[k]
  IN /\ p \in 1..Len(f) /\ f[p] \in Nat
     /\ Starts(f)[k + 1] = p + f[p] + 4
     /\ Starts(f)[k + 1] <= Len(f) + 1

LEMMA HeaderWithin ==
  ASSUME NEW f \in Seq(Nat), HasHeader(f)
  PROVE  /\ f # <<>> /\ f[1] \in Nat /\ TupleStart(f) \in 1..(Len(f) + 1)
         /\ \A k \in 1..f[1] : Within(f, k)
<1> DEFINE u == Starts(f)
           n == f[1]
           l == Len(f)
<1>1. f # <<>> /\ u[n + 1] <= l + 1
  BY DEF HasHeader, TupleStart
<1>2. /\ n \in Nat /\ u \in [1..(n + 1) -> Nat \ {0}] /\ l \in Nat
      /\ \A k \in 2..(n + 1) :
           u[k] = IF u[k - 1] <= l THEN u[k - 1] + f[u[k - 1]] + 4 ELSE l + 2
  BY <1>1, StartsStep
<1>3. \A i \in 1..l : f[i] \in Nat
  OBVIOUS
<1> HIDE DEF u, n, l
<1> DEFINE S == {j \in 1..(n + 1) : u[(n + 2) - j] <= l + 1}
<1>4. 1 \in S
  <2>1. (n + 2) - 1 = n + 1 /\ 1 \in 1..(n + 1)
    BY <1>2
  <2> QED
    BY <1>1, <2>1
<1>5. ASSUME NEW j \in 1..n, j \in S
      PROVE  j + 1 \in S
  <2> DEFINE k == (n + 2) - j
  <2>1. /\ k \in 2..(n + 1) /\ k - 1 \in 1..(n + 1)
        /\ (n + 2) - (j + 1) = k - 1 /\ j + 1 \in 1..(n + 1)
    BY <1>2
  <2> HIDE DEF k
  <2>2. u[k] <= l + 1
    BY <1>5 DEF k
  <2>3. u[k - 1] \in Nat
    BY <1>2, <2>1
  <2>4. u[k - 1] <= l
    BY <1>2, <2>1, <2>2, <2>3
  <2>5. u[k - 1] <= l + 1
    BY <1>2, <2>3, <2>4
  <2> QED
    BY <2>1, <2>5
<1> HIDE DEF S
<1>6. 1..(n + 1) \subseteq S
  <2>1. n + 1 \in Nat /\ (n + 1) - 1 = n
    BY <1>2
  <2>2. \A j \in 1..((n + 1) - 1) : j \in S => j + 1 \in S
    BY <1>5, <2>1
  <2> QED
    BY <1>4, <2>1, <2>2, SetInduction
<1>7. ASSUME NEW k \in 1..(n + 1)
      PROVE  u[k] <= l + 1
  <2>1. (n + 2) - k \in 1..(n + 1) /\ (n + 2) - ((n + 2) - k) = k
    BY <1>2
  <2> QED
    BY <1>6, <2>1 DEF S
<1>8. ASSUME NEW k \in 1..n
      PROVE  /\ u[k] \in 1..l /\ f[u[k]] \in Nat
             /\ u[k + 1] = u[k] + f[u[k]] + 4 /\ u[k + 1] <= l + 1
  <2>1. k + 1 \in 2..(n + 1) /\ (k + 1) - 1 = k /\ k \in 1..(n + 1)
    BY <1>2
  <2>2. u[k + 1] <= l + 1
    BY <1>7, <2>1
  <2>3. u[k] \in Nat \ {0}
    BY <1>2, <2>1
  <2>4. u[k] <= l
    BY <1>2, <2>1, <2>2, <2>3
  <2>5. u[k + 1] = u[k] + f[u[k]] + 4
    BY <1>2, <2>1, <2>4
  <2> QED
    BY <1>2, <1>3, <2>2, <2>3, <2>4, <2>5
<1>9. TupleStart(f) \in 1..(l + 1)
  <2>1. u[n + 1] \in Nat \ {0}
    BY <1>2
  <2> QED
    BY <1>1, <1>2, <2>1 DEF TupleStart, u, n
<1> QED
  BY <1>1, <1>2, <1>8, <1>9 DEF Within, u, n, l

LEMMA SameBytes ==
  ASSUME NEW f \in Seq(Nat), NEW g \in Seq(Nat), Prefix(f, g)
  PROVE  /\ \A i \in 1..Len(f) : g[i] = f[i] /\ f[i] \in Nat
         /\ \A i \in Nat \ {0}, j \in Int :
              j <= Len(f) => SubSeq(g, i, j) = SubSeq(f, i, j)
BY DEF Prefix

LEMMA SameStarts ==
  ASSUME NEW f \in Seq(Nat), NEW g \in Seq(Nat), Prefix(f, g), HasHeader(f)
  PROVE  /\ g # <<>> /\ g[1] = f[1]
         /\ \A k \in 1..(f[1] + 1) : Starts(g)[k] = Starts(f)[k]
<1> DEFINE n == f[1]
           u == Starts(f)
           v == Starts(g)
<1>1. /\ n \in Nat /\ f # <<>> /\ g # <<>> /\ g[1] = n
  BY HeaderWithin DEF Prefix
<1>2. /\ \A k \in 1..n : /\ u[k] \in 1..Len(f)
                          /\ u[k + 1] = u[k] + f[u[k]] + 4
      /\ u[1] = 2 /\ v[1] = 2
      /\ \A k \in 2..(n + 1) :
           v[k] = IF v[k - 1] <= Len(g) THEN v[k - 1] + g[v[k - 1]] + 4 ELSE Len(g) + 2
  BY <1>1, HeaderWithin, StartsStep DEF Within
<1>3. Len(f) \in Nat /\ Len(g) \in Nat /\ Len(f) <= Len(g)
      /\ \A i \in 1..Len(f) : g[i] = f[i]
  BY DEF Prefix
<1> HIDE DEF n, u, v
<1>4. ASSUME NEW k \in 2..(n + 1), u[k - 1] = v[k - 1]
      PROVE  u[k] = v[k]
  <2>1. k - 1 \in 1..n /\ (k - 1) + 1 = k
    BY <1>1
  <2>2. /\ u[k - 1] \in 1..Len(f) /\ u[k] = u[k - 1] + f[u[k - 1]] + 4
    BY <1>2, <2>1
  <2> DEFINE p == u[k - 1]
  <2>3. v[k - 1] = p /\ p \in 1..Len(f) /\ u[k] = p + f[p] + 4
    BY <1>4, <2>2
  <2> HIDE DEF p
  <2>4. p <= Len(g) /\ g[p] = f[p]
    BY <1>3, <2>3
  <2> QED
    BY <1>2, <2>3, <2>4
<1>5. Alike(u, v, n + 1)
  BY <1>1, <1>2, <1>4 DEF Alike
<1>6. Same(u, v, n + 1)
  BY <1>1, <1>5, Agree
<1> QED
  BY <1>1, <1>6 DEF Same, n, u, v

\* What Header makes of the description that begins at p.
Entry(name, type, offset, size) ==
  [name   |-> BytesString(name),
   type   |-> IF type = 0 THEN "INT" ELSE "STRING",
   offset |-> offset,
   size   |-> size]
EntryOf(f, p, z) ==
  Entry(SubSeq(f, p + 1, p + z), f[p + z + 1], f[p + z + 2], f[p + z + 3])
Described(f, p) == EntryOf(f, p, f[p])

LEMMA HeaderIs ==
  ASSUME NEW f \in Seq(Nat), HasHeader(f)
  PROVE  /\ Header(f) = [k \in 1..f[1] |-> Described(f, Starts(f)[k])]
         /\ Len(Header(f)) = f[1] /\ DOMAIN Header(f) = 1..f[1] /\ f[1] \in Nat
         /\ \A k \in 1..f[1] :
              /\ Header(f)[k].type \in {"INT", "STRING"}
              /\ Header(f)[k].offset \in Nat /\ Header(f)[k].size \in Nat
<1>1. Header(f) = [k \in 1..f[1] |-> Described(f, Starts(f)[k])]
  BY DEF Header, Described, EntryOf, Entry
<1>2. f[1] \in Nat
  BY HeaderWithin
<1>3. Len(Header(f)) = f[1] /\ DOMAIN Header(f) = 1..f[1]
  BY <1>1, <1>2
<1>4. ASSUME NEW k \in 1..f[1]
      PROVE  /\ Header(f)[k].type \in {"INT", "STRING"}
             /\ Header(f)[k].offset \in Nat /\ Header(f)[k].size \in Nat
  <2> DEFINE p == Starts(f)[k]
           z == f[p]
  <2>1. /\ p \in 1..Len(f) /\ z \in Nat /\ p + z + 4 <= Len(f) + 1
    BY HeaderWithin DEF Within
  <2>2. Header(f)[k] = Described(f, p)
    BY <1>1
  <2>3. /\ Described(f, p).type \in {"INT", "STRING"}
        /\ Described(f, p).offset = f[p + z + 2] /\ Described(f, p).size = f[p + z + 3]
    BY DEF Described, EntryOf, Entry
  <2> HIDE DEF p, z
  <2>4. Len(f) \in Nat /\ \A i \in 1..Len(f) : f[i] \in Nat
    OBVIOUS
  <2>5. p + z + 2 \in 1..Len(f) /\ p + z + 3 \in 1..Len(f)
    BY <2>1, <2>4
  <2> QED
    BY <2>2, <2>3, <2>4, <2>5
<1> QED
  BY <1>1, <1>2, <1>3, <1>4

LEMMA HeaderKept ==
  ASSUME NEW f \in Seq(Nat), NEW g \in Seq(Nat), Prefix(f, g), HasHeader(f)
  PROVE  /\ HasHeader(g) /\ TupleStart(g) = TupleStart(f)
         /\ Header(g) = Header(f)
<1>1. /\ g # <<>> /\ g[1] = f[1] /\ f[1] \in Nat
      /\ \A k \in 1..(f[1] + 1) : Starts(g)[k] = Starts(f)[k]
      /\ TupleStart(f) \in 1..(Len(f) + 1)
  BY SameStarts, HeaderWithin
<1>2. TupleStart(g) = TupleStart(f)
  <2> DEFINE n == f[1]
  <2>1. n \in Nat /\ \A k \in 1..(n + 1) : Starts(g)[k] = Starts(f)[k]
    BY <1>1
  <2>2. TupleStart(g) = Starts(g)[n + 1] /\ TupleStart(f) = Starts(f)[n + 1]
    BY <1>1 DEF TupleStart
  <2> HIDE DEF n
  <2> QED
    BY <2>1, <2>2
<1>3. HasHeader(g)
  BY <1>1, <1>2 DEF HasHeader, Prefix
<1>4. ASSUME NEW k \in 1..f[1]
      PROVE  Described(g, Starts(g)[k]) = Described(f, Starts(f)[k])
  <2> DEFINE p == Starts(f)[k]
           z == f[p]
  <2>1. k \in 1..(f[1] + 1) /\ Starts(g)[k] = p
    BY <1>1
  <2>2. /\ p \in 1..Len(f) /\ z \in Nat /\ p + z + 4 <= Len(f) + 1
    BY HeaderWithin DEF Within
  <2>3. g[p] = z
    BY <2>2, SameBytes
  <2> HIDE DEF z
  <2>4. Described(f, p) = EntryOf(f, p, z) /\ Described(g, p) = EntryOf(g, p, z)
    BY <2>3 DEF Described, z
  <2> HIDE DEF p
  <2>5. /\ Len(f) \in Nat /\ p + 1 \in Nat \ {0} /\ p + z \in Int /\ p + z <= Len(f)
        /\ p + z + 1 \in 1..Len(f) /\ p + z + 2 \in 1..Len(f)
        /\ p + z + 3 \in 1..Len(f)
    BY <2>2
  <2>7. SubSeq(g, p + 1, p + z) = SubSeq(f, p + 1, p + z)
    BY <2>5, SameBytes
  <2>8. /\ g[p + z + 1] = f[p + z + 1] /\ g[p + z + 2] = f[p + z + 2]
        /\ g[p + z + 3] = f[p + z + 3]
    BY <2>5, SameBytes
  <2>9. Described(g, p) = Described(f, p)
    BY <2>4, <2>7, <2>8 DEF EntryOf
  <2> QED
    BY <2>1, <2>9 DEF p
<1>5. Header(g) = Header(f)
  BY <1>1, <1>3, <1>4, HeaderIs
<1> QED
  BY <1>2, <1>3, <1>5

-----------------------------------------------------------------------------
\* The bytes of one tuple, and what Tuples makes of those from p on.
TupleWidth(h) == BitBytes(Len(h)) + TupleSize(h)

ValueAtByte(f, h, p, k) ==
  LET bytes == SubSeq(f, p + BitBytes(Len(h)) + h[k].offset, p + TupleWidth(h) - 1)
  IN IF (f[p + (k - 1) \div 8] \div 2^((k - 1) % 8)) % 2 = 1
     THEN [type |-> "NULL", val |-> 0]
     ELSE IF h[k].type = "INT"
     THEN [type |-> "INT", val |-> BytesInt(SubSeq(bytes, 1, IntSize))]
     ELSE [type |-> "STRING", val |-> BytesString(bytes)]

TupleAtByte(f, h, p) == [k \in DOMAIN h |-> ValueAtByte(f, h, p, k)]

HowMany(f) == (Len(f) + 1 - TupleStart(f)) \div TupleWidth(Header(f))

LEMMA TuplesAre ==
  ASSUME NEW f
  PROVE  Tuples(f) =
           [n \in 1..HowMany(f) |->
              TupleAtByte(f, Header(f), TupleStart(f) + (n - 1) * TupleWidth(Header(f)))]
BY DEF Tuples, TupleAtByte, ValueAtByte, TupleWidth, HowMany

LEMMA WidthPositive ==
  ASSUME NEW f \in Seq(Nat), HasHeader(f), f[1] > 0
  PROVE  /\ TupleWidth(Header(f)) \in Nat \ {0} /\ TupleSize(Header(f)) \in Nat
         /\ BitBytes(f[1]) \in Nat
         /\ \A k \in 1..f[1] : (k - 1) \div 8 \in 0..(BitBytes(f[1]) - 1)
<1> DEFINE h == Header(f)
           sizes == [k \in DOMAIN h |-> h[k].size]
<1>1. /\ f[1] \in Nat /\ Len(h) = f[1] /\ DOMAIN h = 1..f[1]
      /\ \A k \in 1..f[1] : h[k].size \in Nat
  BY HeaderIs
<1> HIDE DEF h
<1>2. sizes \in Seq(Int)
  <2> DEFINE n == f[1]
  <2>1. n \in Nat /\ DOMAIN h = 1..n /\ \A k \in 1..n : h[k].size \in Int
    BY <1>1
  <2> HIDE DEF n
  <2>2. [k \in 1..n |-> h[k].size] \in Seq(Int)
    BY <2>1
  <2> QED
    BY <2>1, <2>2
<1>3. TupleSize(h) \in Nat
  BY <1>2, SumInt DEF TupleSize
<1>4. /\ BitBytes(f[1]) \in Nat /\ BitBytes(f[1]) > 0
      /\ \A k \in 1..f[1] : (k - 1) \div 8 \in 0..(BitBytes(f[1]) - 1)
  BY <1>1 DEF BitBytes
<1> QED
  BY <1>1, <1>3, <1>4 DEF TupleWidth, h

LEMMA SameTuple ==
  ASSUME NEW f \in Seq(Nat), NEW g \in Seq(Nat), Prefix(f, g),
         HasHeader(f), f[1] > 0, NEW p \in Nat \ {0},
         p + TupleWidth(Header(f)) - 1 <= Len(f)
  PROVE  TupleAtByte(g, Header(f), p) = TupleAtByte(f, Header(f), p)
<1> DEFINE h == Header(f)
           w == TupleWidth(h)
           bits == BitBytes(Len(h))
<1>1. /\ DOMAIN h = 1..Len(h) /\ Len(h) \in Nat
      /\ \A k \in 1..Len(h) : h[k].offset \in Nat
  BY HeaderIs
<1>2. /\ w \in Nat \ {0} /\ bits \in Nat /\ bits <= w
      /\ \A k \in 1..Len(h) : (k - 1) \div 8 \in 0..(bits - 1)
  <2>1. Len(h) = f[1]
    BY HeaderIs
  <2>2. w \in Nat \ {0} /\ TupleSize(h) \in Nat /\ bits \in Nat
        /\ \A k \in 1..Len(h) : (k - 1) \div 8 \in 0..(bits - 1)
    BY <2>1, WidthPositive
  <2>3. w = bits + TupleSize(h)
    BY DEF TupleWidth
  <2> HIDE DEF w, bits
  <2> QED
    BY <2>2, <2>3
<1>3. ASSUME NEW k \in 1..Len(h)
      PROVE  ValueAtByte(g, h, p, k) = ValueAtByte(f, h, p, k)
  <2> DEFINE a == p + bits + h[k].offset
             b == p + w - 1
             c == p + (k - 1) \div 8
  <2>1. a \in Nat \ {0} /\ b \in Int /\ b <= Len(f) /\ c \in 1..Len(f)
    <3> DEFINE o == h[k].offset
               q == (k - 1) \div 8
    <3>1. o \in Nat /\ q \in 0..(bits - 1) /\ w \in Nat /\ bits \in Nat /\ bits <= w
      BY <1>1, <1>2
    <3>2. p + w - 1 <= Len(f) /\ Len(f) \in Nat
      OBVIOUS
    <3> DEFINE l == Len(f)
    <3> HIDE DEF o, q, w, bits, l
    <3>3. /\ o \in Nat /\ q \in 0..(bits - 1) /\ w \in Nat /\ bits \in Nat
          /\ bits <= w /\ p + w - 1 <= l /\ l \in Nat
      BY <3>1, <3>2 DEF l
    <3>4. p + bits + o \in Nat \ {0} /\ p + w - 1 \in Int /\ p + q \in 1..l
      BY <3>3
    <3> QED
      BY <3>3, <3>4 DEF o, q, l
  <2>2. /\ ValueAtByte(f, h, p, k) =
             LET bytes == SubSeq(f, a, b)
             IN IF (f[c] \div 2^((k - 1) % 8)) % 2 = 1
                THEN [type |-> "NULL", val |-> 0]
                ELSE IF h[k].type = "INT"
                THEN [type |-> "INT", val |-> BytesInt(SubSeq(bytes, 1, IntSize))]
                ELSE [type |-> "STRING", val |-> BytesString(bytes)]
        /\ ValueAtByte(g, h, p, k) =
             LET bytes == SubSeq(g, a, b)
             IN IF (g[c] \div 2^((k - 1) % 8)) % 2 = 1
                THEN [type |-> "NULL", val |-> 0]
                ELSE IF h[k].type = "INT"
                THEN [type |-> "INT", val |-> BytesInt(SubSeq(bytes, 1, IntSize))]
                ELSE [type |-> "STRING", val |-> BytesString(bytes)]
    BY DEF ValueAtByte
  <2> HIDE DEF a, b, c
  <2>3. SubSeq(g, a, b) = SubSeq(f, a, b) /\ g[c] = f[c]
    BY <2>1, SameBytes
  <2> QED
    BY <2>2, <2>3
<1> HIDE DEF h
<1> QED
  BY <1>1, <1>3 DEF TupleAtByte, h

LEMMA TuplesStay ==
  ASSUME NEW f \in Seq(Nat), NEW g \in Seq(Nat), Prefix(f, g),
         HasHeader(f), f[1] > 0
  PROVE  /\ Len(Tuples(f)) <= Len(Tuples(g))
         /\ \A n \in DOMAIN Tuples(f) : Tuples(g)[n] = Tuples(f)[n]
<1> DEFINE h == Header(f)
           w == TupleWidth(h)
           t == TupleStart(f)
           x == Len(f) + 1 - t
           y == Len(g) + 1 - t
<1>1. Header(g) = h /\ TupleStart(g) = t
  BY HeaderKept
<1>2. w \in Nat \ {0} /\ t \in 1..(Len(f) + 1) /\ Len(f) \in Nat
  BY WidthPositive, HeaderWithin
<1>3. Tuples(f) = [n \in 1..(x \div w) |-> TupleAtByte(f, h, t + (n - 1) * w)]
  BY TuplesAre DEF HowMany
<1>4. Tuples(g) = [n \in 1..(y \div w) |-> TupleAtByte(g, h, t + (n - 1) * w)]
  BY <1>1, TuplesAre DEF HowMany
<1>5. Len(g) \in Nat /\ Len(f) <= Len(g)
  BY DEF Prefix
<1> HIDE DEF h, w, t
<1>6. x \in Nat /\ y \in Nat /\ x <= y
  BY <1>2, <1>5
<1>7. /\ x \div w \in Nat /\ y \div w \in Nat /\ x \div w <= y \div w
      /\ \A n \in Nat : n <= x \div w => n * w <= x
  <2> HIDE DEF x, y
  <2> QED
    BY <1>2, <1>6
<1>8. ASSUME NEW n \in 1..(x \div w)
      PROVE  TupleAtByte(g, h, t + (n - 1) * w) = TupleAtByte(f, h, t + (n - 1) * w)
  <2> DEFINE m == (n - 1) * w
             p == t + m
  <2>1. n \in Nat /\ n >= 1 /\ n * w <= x
    BY <1>7
  <2>2. (n - 1) * w = n * w - w /\ n * w \in Nat /\ (n - 1) * w \in Nat
    BY <1>2, <2>1
  <2>3. p \in Nat \ {0} /\ p + w - 1 <= Len(f)
    <3>1. m + w <= x /\ m \in Nat
      BY <1>2, <2>1, <2>2
    <3> HIDE DEF m
    <3> QED
      BY <1>2, <3>1
  <2> HIDE DEF p
  <2>4. TupleAtByte(g, h, p) = TupleAtByte(f, h, p)
    BY <2>3, SameTuple DEF h, w
  <2> QED
    BY <2>4 DEF p
<1> HIDE DEF x, y
<1>9. Len(Tuples(f)) = x \div w /\ Len(Tuples(g)) = y \div w
  BY <1>3, <1>4, <1>7
<1>10. ASSUME NEW n \in DOMAIN Tuples(f)
       PROVE  Tuples(g)[n] = Tuples(f)[n]
  <2>1. n \in 1..(x \div w) /\ n \in 1..(y \div w)
    BY <1>3, <1>7
  <2> QED
    BY <1>3, <1>4, <1>8, <2>1
<1> QED
  BY <1>7, <1>9, <1>10

-----------------------------------------------------------------------------
(* What is written is bytes.                                                *)
Piece == Seq(Nat)
Attribute == [name : Piece, type : {"INT", "STRING"}, size : Nat]
Elem == [type : {"NULL", "INT", "STRING"}, set : BOOLEAN, val : Int \cup Piece]

IsTable(a) ==
  /\ Len(a) \in Nat /\ DOMAIN a = 1..Len(a)
  /\ \A k \in DOMAIN a : a[k].type \in {"INT", "STRING"} /\ a[k].size \in Nat

ValueTyped(x) ==
  /\ x.type = "INT" => x.val \in Int
  /\ x.type = "STRING" => x.val \in Piece

LEMMA ByteTyped == \A x \in Int : <<x % 256>> \in Piece
  BY DEF Piece

LEMMA HeaderPiecesTyped ==
  ASSUME NEW a \in Seq(Attribute)
  PROVE  HeaderPieces(a) \in Seq(Piece)
<1> DEFINE parts(k) == <<<<(Len(a[k].name) + 1) % 256>>, Append(a[k].name, 0),
                         <<IF a[k].type = "INT" THEN 0 ELSE 1>>,
                         <<OffsetOf(a, k)>>, <<a[k].size>>>>
           all == [k \in DOMAIN a |-> parts(k)]
<1>1. Len(a) \in Nat /\ DOMAIN a = 1..Len(a) /\ \A k \in DOMAIN a : a[k] \in Attribute
  OBVIOUS
<1>2. ASSUME NEW k \in DOMAIN a
      PROVE  parts(k) \in Seq(Piece)
  <2>1. a[k].name \in Seq(Nat) /\ a[k].size \in Nat
    BY <1>1 DEF Attribute, Piece
  <2>2. [j \in 1..(k - 1) |-> a[j].size] \in Seq(Int)
    <3>1. k - 1 \in Nat /\ \A j \in 1..(k - 1) : a[j].size \in Int
      <4>1. k - 1 \in Nat /\ \A j \in 1..(k - 1) : j \in DOMAIN a
        BY <1>1
      <4>2. \A j \in DOMAIN a : a[j].size \in Int
        BY <1>1 DEF Attribute
      <4> QED
        BY <4>1, <4>2
    <3> DEFINE n == k - 1
    <3> HIDE DEF n
    <3>2. n \in Nat /\ \A j \in 1..n : a[j].size \in Int
      BY <3>1 DEF n
    <3>3. [j \in 1..n |-> a[j].size] \in Seq(Int)
      BY <3>2
    <3> QED
      BY <3>3 DEF n
  <2>3. OffsetOf(a, k) \in Nat
    BY <2>2, SumInt DEF OffsetOf
  <2>4. /\ <<(Len(a[k].name) + 1) % 256>> \in Piece
        /\ Append(a[k].name, 0) \in Piece
        /\ <<IF a[k].type = "INT" THEN 0 ELSE 1>> \in Piece
        /\ <<OffsetOf(a, k)>> \in Piece /\ <<a[k].size>> \in Piece
    <3> USE DEF Piece
    <3>1. Len(a[k].name) \in Nat
      BY <2>1
    <3>2. <<(Len(a[k].name) + 1) % 256>> \in Piece
      <4>1. Len(a[k].name) + 1 \in Int
        BY <3>1
      <4> QED
        BY <4>1, ByteTyped
    <3>3. Append(a[k].name, 0) \in Piece
      BY <2>1
    <3>4. <<IF a[k].type = "INT" THEN 0 ELSE 1>> \in Piece
      OBVIOUS
    <3>5. <<OffsetOf(a, k)>> \in Piece /\ <<a[k].size>> \in Piece
      BY <2>1, <2>3
    <3> QED
      BY <3>2, <3>3, <3>4, <3>5
  <2> QED
    BY <2>4
<1> HIDE DEF parts
<1>3. all \in Seq(Seq(Piece))
  BY <1>1, <1>2
<1>4. FlattenSeq(all) \in Seq(Piece)
  BY <1>3, Flattened
<1>5. <<<<Len(a) % 256>>>> \in Seq(Piece)
  BY <1>1 DEF Piece
<1>6. HeaderPieces(a) = <<<<Len(a) % 256>>>> \o FlattenSeq(all)
  BY DEF HeaderPieces, parts
<1> HIDE DEF all
<1> QED
  BY <1>4, <1>5, <1>6

LEMMA PaddingTyped ==
  ASSUME NEW n \in Int
  PROVE  Padding(n) \in Seq(Piece)
BY DEF Padding, Piece

LEMMA IntBytesTyped ==
  ASSUME NEW v \in Int
  PROVE  IntBytes(v) \in Piece /\ Len(IntBytes(v)) = IntSize
<1>1. \A i \in Nat : (v \div 256^i) % 256 \in Nat
  OBVIOUS
<1>2. \A i \in 1..IntSize : (v \div 256^(i - 1)) % 256 \in Nat
  BY <1>1, SizesAssumption
<1> DEFINE b == [i \in 1..IntSize |-> (v \div 256^(i - 1)) % 256]
<1>3. b \in Seq(Nat) /\ Len(b) = IntSize
  BY <1>2, SizesAssumption
<1> QED
  BY <1>3 DEF IntBytes, Piece

LEMMA NullBitsTyped ==
  ASSUME NEW e, Len(e) \in Nat
  PROVE  NullBits(e) \in Piece /\ Len(NullBits(e)) = BitBytes(Len(e))
<1> DEFINE bit(b, k) == LET i == 8 * (b - 1) + k
                        IN IF i <= Len(e) /\ e[i].type = "NULL" THEN 2^(k - 1) ELSE 0
<1>1. \A b : \A k \in 1..8 : bit(b, k) \in Int
  <2>1. \A k \in 1..8 : k - 1 \in Nat
    OBVIOUS
  <2>2. \A i \in Nat : 2^i \in Int
    OBVIOUS
  <2>3. \A k \in 1..8 : 2^(k - 1) \in Int
    BY <2>1, <2>2
  <2> QED
    BY <2>3
<1>2. NullBits(e) = [b \in 1..BitBytes(Len(e)) |-> Sum([k \in 1..8 |-> bit(b, k)]) % 256]
  BY DEF NullBits
<1> HIDE DEF bit
<1>3. \A b : Sum([k \in 1..8 |-> bit(b, k)]) % 256 \in Nat
  <2> SUFFICES ASSUME NEW b PROVE Sum([k \in 1..8 |-> bit(b, k)]) % 256 \in Nat
    OBVIOUS
  <2>1. [k \in 1..8 |-> bit(b, k)] \in Seq(Int)
    BY <1>1
  <2>2. Sum([k \in 1..8 |-> bit(b, k)]) \in Int
    BY <2>1, SumInt
  <2> QED
    BY <2>2
<1>4. BitBytes(Len(e)) \in Nat
  BY DEF BitBytes
<1> DEFINE n == BitBytes(Len(e))
           byte(b) == Sum([k \in 1..8 |-> bit(b, k)]) % 256
<1>5. n \in Nat /\ \A b : byte(b) \in Nat
  BY <1>3, <1>4
<1>6. NullBits(e) = [b \in 1..n |-> byte(b)]
  BY <1>2
<1> HIDE DEF n, byte
<1>7. NullBits(e) \in Piece /\ Len(NullBits(e)) = n
  BY <1>5, <1>6 DEF Piece
<1> QED
  BY <1>7 DEF n

LEMMA RowPiecesTyped ==
  ASSUME NEW a, IsTable(a), NEW e, DOMAIN e = DOMAIN a, Len(e) = Len(a),
         \A k \in DOMAIN a : e[k].type \in {"NULL", "INT", "STRING"} /\ ValueTyped(e[k])
  PROVE  RowPieces(a, e) \in Seq(Piece)
<1> DEFINE parts(k) ==
             CASE e[k].type = "NULL" -> Padding(a[k].size)
               [] e[k].type = "INT"  -> <<IntBytes(e[k].val)>>
               [] OTHER -> <<Append(e[k].val, 0)>>
                             \o Padding(a[k].size - Len(e[k].val) - 1)
           all == [k \in DOMAIN a |-> parts(k)]
<1>1. Len(a) \in Nat /\ DOMAIN a = 1..Len(a) /\ \A k \in DOMAIN a : a[k].size \in Nat
  BY DEF IsTable
<1>2. ASSUME NEW k \in DOMAIN a
      PROVE  parts(k) \in Seq(Piece)
  <2>1. CASE e[k].type = "NULL"
    BY <1>1, <2>1, PaddingTyped
  <2>2. CASE e[k].type = "INT"
    <3>1. e[k].val \in Int
      BY <2>2 DEF ValueTyped
    <3>2. IntBytes(e[k].val) \in Piece
      BY <3>1, IntBytesTyped
    <3> QED
      BY <2>2, <3>2
  <2>3. CASE e[k].type = "STRING"
    <3>1. e[k].val \in Seq(Nat)
      BY <2>3 DEF ValueTyped, Piece
    <3>2. Append(e[k].val, 0) \in Piece /\ a[k].size - Len(e[k].val) - 1 \in Int
      BY <1>1, <3>1 DEF Piece
    <3>3. Padding(a[k].size - Len(e[k].val) - 1) \in Seq(Piece)
      BY <3>2, PaddingTyped
    <3>4. <<Append(e[k].val, 0)>> \in Seq(Piece)
      BY <3>2
    <3>5. parts(k) = <<Append(e[k].val, 0)>> \o Padding(a[k].size - Len(e[k].val) - 1)
      BY <2>3
    <3> HIDE DEF parts
    <3> QED
      BY <3>3, <3>4, <3>5
  <2> QED
    BY <2>1, <2>2, <2>3
<1> HIDE DEF parts
<1>3. all \in Seq(Seq(Piece))
  BY <1>1, <1>2
<1>4. FlattenSeq(all) \in Seq(Piece)
  BY <1>3, Flattened
<1>5. NullBits(e) \in Piece
  BY <1>1, NullBitsTyped
<1>6. RowPieces(a, e) = <<NullBits(e)>> \o FlattenSeq(all)
  BY DEF RowPieces, parts
<1>7. <<NullBits(e)>> \in Seq(Piece)
  BY <1>5
<1> HIDE DEF all
<1> QED
  BY <1>4, <1>6, <1>7

-----------------------------------------------------------------------------
(* The files, and what is read, while a statement is carried out.           *)
ElemTyped(x) ==
  /\ x = [type |-> x.type, set |-> x.set, val |-> x.val]
  /\ x.type \in {"NULL", "INT", "STRING"} /\ x.set \in BOOLEAN
  /\ x.set => ValueTyped(x)

ElemsTyped ==
  /\ elems = [k \in DOMAIN attrs |-> elems[k]]
  /\ \A k \in DOMAIN attrs : ElemTyped(elems[k])

StoreTyped ==
  /\ \A t \in DOMAIN files : files[t] \in Piece
  /\ \A t \in DOMAIN before : before[t] \in Piece
  /\ kept \in Nat
  /\ pc # "idle" => stmt \in Statements

ReadingTyped ==
  /\ pc \in Creates => attrs \in Seq(Attribute)
  /\ pc \in Inserts => IsTable(attrs)
  /\ pc \in {"columns", "values?", "values"} => ElemsTyped
  /\ pc = "write" => pending \in Seq(Piece)

\* CREATE's file is a new one; what INSERT found in its own is behind kept.
Placed ==
  pc # "idle" =>
    /\ table \in DOMAIN files
    /\ stmt.command = "CREATE" => table \notin DOMAIN before
    /\ stmt.command # "CREATE" =>
         table \in DOMAIN before /\ kept = Len(before[table])

\* No byte there was when the statement began is lost or changed.
BytesKept ==
  \A t \in DOMAIN before : t \in DOMAIN files /\ Prefix(before[t], files[t])

KInv == StoreTyped /\ ReadingTyped /\ Placed /\ BytesKept

LEMMA Among ==
  ASSUME NEW S, NEW R, \A y \in S : y \in R, NEW x \in Seq(S)
  PROVE  x \in Seq(R)
<1>1. \A i \in 1..Len(x) : x[i] \in R
  OBVIOUS
<1>2. x = [i \in 1..Len(x) |-> x[i]] /\ Len(x) \in Nat
  OBVIOUS
<1> DEFINE n == Len(x)
<1> HIDE DEF n
<1>3. [i \in 1..n |-> x[i]] \in Seq(R)
  BY <1>1, <1>2 DEF n
<1> QED
  BY <1>2, <1>3 DEF n

LEMMA TextTyped == \A x \in Texts : x \in Piece
<1>1. \A y \in 1..255 : y \in Nat
  OBVIOUS
<1> DEFINE S == 1..255
<1>2. \A y \in S : y \in Nat
  BY <1>1
<1> HIDE DEF S
<1>3. \A x \in Seq(S) : x \in Seq(Nat)
  BY <1>2, Among
<1> QED
  BY <1>3 DEF Texts, Piece, S

LEMMA PrefixSame == \A f : Len(f) \in Nat => Prefix(f, f)
  BY DEF Prefix

\* A step that reads.
LEMMA Reads ==
  ASSUME KInv, pc # "idle", UNCHANGED <<files, stmt, before, kept>>, ReadingTyped'
  PROVE  KInv'
<1>1. StoreTyped'
  BY DEF KInv, StoreTyped
<1>2. Placed'
  BY DEF KInv, Placed, table
<1>3. BytesKept'
  BY DEF KInv, BytesKept
<1> QED
  BY <1>1, <1>2, <1>3 DEF KInv

\* The end of a statement.
LEMMA Over ==
  ASSUME KInv, pc' = "idle", UNCHANGED <<before, kept>>,
         \A t \in DOMAIN files' : files'[t] \in Piece, BytesKept'
  PROVE  KInv'
<1>1. StoreTyped'
  BY DEF KInv, StoreTyped
<1>2. ReadingTyped' /\ Placed'
  BY DEF ReadingTyped, Placed, Creates, Inserts
<1> QED
  BY <1>1, <1>2 DEF KInv

LEMMA OverAsItWas ==
  ASSUME KInv, pc' = "idle", UNCHANGED <<files, before, kept>>
  PROVE  KInv'
<1>1. BytesKept' /\ \A t \in DOMAIN files' : files'[t] \in Piece
  BY DEF KInv, BytesKept, StoreTyped
<1> QED
  BY <1>1, Over

LEMMA OverRemoved ==
  ASSUME IInv, KInv, pc # "idle", stmt.command = "CREATE", Discard
  PROVE  KInv'
<1>1. /\ pc' = "idle" /\ files' = before /\ before' = before /\ kept' = kept
  BY DEF Discard, Removed, Finish, IInv, OneMore
<1>2. \A t \in DOMAIN before : before[t] \in Piece /\ Len(before[t]) \in Nat
  BY DEF KInv, StoreTyped, Piece
<1>3. BytesKept' /\ \A t \in DOMAIN files' : files'[t] \in Piece
  BY <1>1, <1>2, PrefixSame DEF BytesKept
<1> QED
  BY <1>1, <1>3, Over

LEMMA PrefixMore ==
  ASSUME NEW f \in Piece, NEW g \in Piece, NEW p \in Piece, Prefix(f, g)
  PROVE  g \o p \in Piece /\ Prefix(f, g \o p)
<1> USE DEF Piece
<1>1. /\ g \o p \in Seq(Nat) /\ Len(g \o p) = Len(g) + Len(p)
      /\ Len(f) \in Nat /\ Len(g) \in Nat /\ Len(p) \in Nat
      /\ \A i \in 1..Len(g) : (g \o p)[i] = g[i]
  OBVIOUS
<1>2. Len(f) <= Len(g) /\ \A i \in 1..Len(f) : g[i] = f[i]
  BY DEF Prefix
<1>3. Len(f) <= Len(g \o p)
  BY <1>1, <1>2
<1>4. \A i \in 1..Len(f) : (g \o p)[i] = f[i]
  BY <1>1, <1>2
<1> QED
  BY <1>1, <1>3, <1>4 DEF Prefix

LEMMA PrefixLess ==
  ASSUME NEW f \in Piece, NEW g \in Piece, NEW n \in Nat, Prefix(f, g),
         Len(f) <= n, n <= Len(g)
  PROVE  SubSeq(g, 1, n) \in Piece /\ Prefix(f, SubSeq(g, 1, n))
<1> USE DEF Piece
<1> DEFINE h == SubSeq(g, 1, n)
<1>1. /\ h \in Seq(Nat) /\ Len(h) = n /\ Len(f) \in Nat
      /\ \A i \in 1..n : h[i] = g[i]
  OBVIOUS
<1>2. \A i \in 1..Len(f) : g[i] = f[i]
  BY DEF Prefix
<1> HIDE DEF h
<1>3. ASSUME NEW i \in 1..Len(f) PROVE h[i] = f[i]
  <2>1. i \in 1..n
    <3> DEFINE m == Len(f)
    <3>1. m \in Nat /\ m <= n /\ i \in 1..m
      BY <1>1
    <3> HIDE DEF m
    <3> QED
      BY <3>1
  <2> QED
    BY <1>1, <1>2, <2>1
<1>4. h \in Piece /\ Prefix(f, h)
  BY <1>1, <1>3 DEF Prefix
<1> QED
  BY <1>4 DEF h

\* A step that writes.
LEMMA Grows ==
  ASSUME KInv, pc = "write", pc' = "write", UNCHANGED <<stmt, before, kept>>,
         NEW p \in Piece, files' = [files EXCEPT ![table] = files[table] \o p],
         pending' \in Seq(Piece)
  PROVE  KInv'
<1>1. table \in DOMAIN files /\ files[table] \in Piece
  BY DEF KInv, Placed, StoreTyped
<1>2. files[table] \o p \in Piece
  BY <1>1 DEF Piece
<1>3. StoreTyped'
  BY <1>1, <1>2 DEF KInv, StoreTyped
<1>4. Placed'
  BY DEF KInv, Placed, table
<1>5. BytesKept'
  <2> SUFFICES ASSUME NEW t \in DOMAIN before
               PROVE  t \in DOMAIN files' /\ Prefix(before[t], files'[t])
    BY DEF BytesKept
  <2>1. /\ t \in DOMAIN files /\ Prefix(before[t], files[t])
        /\ before[t] \in Piece /\ files[t] \in Piece
    BY DEF KInv, BytesKept, StoreTyped
  <2>2. CASE t = table
    BY <2>1, <2>2, PrefixMore
  <2>3. CASE t # table
    BY <2>1, <2>3
  <2> QED
    BY <2>2, <2>3
<1>6. ReadingTyped'
  BY DEF ReadingTyped, Creates, Inserts
<1> QED
  BY <1>3, <1>4, <1>5, <1>6 DEF KInv

LEMMA Cut ==
  ASSUME KInv, Crash
  PROVE  KInv'
<1>1. pc # "idle" /\ pc' = "idle" /\ before' = before /\ kept' = kept
  BY DEF Crash, Finish
<1>2. PICK n \in kept..Len(files[table]) :
         files' = [files EXCEPT ![table] = SubSeq(files[table], 1, n)]
  BY DEF Crash
<1>3. table \in DOMAIN files /\ files[table] \in Piece /\ kept \in Nat
  BY <1>1 DEF KInv, Placed, StoreTyped
<1>4. n \in Nat /\ kept <= n /\ n <= Len(files[table])
  BY <1>3 DEF Piece
<1>5. SubSeq(files[table], 1, n) \in Piece
  BY <1>3, <1>4 DEF Piece
<1>6. \A t \in DOMAIN files' : files'[t] \in Piece
  BY <1>2, <1>3, <1>5 DEF KInv, StoreTyped
<1>7. BytesKept'
  <2> SUFFICES ASSUME NEW t \in DOMAIN before
               PROVE  t \in DOMAIN files' /\ Prefix(before[t], files'[t])
    BY <1>1 DEF BytesKept
  <2>1. /\ t \in DOMAIN files /\ Prefix(before[t], files[t])
        /\ before[t] \in Piece /\ files[t] \in Piece
    BY DEF KInv, BytesKept, StoreTyped
  <2>2. CASE t = table
    <3>1. kept = Len(before[t])
      BY <1>1, <2>2 DEF KInv, Placed
    <3>2. Prefix(before[t], SubSeq(files[t], 1, n))
      BY <1>4, <2>1, <2>2, <3>1, PrefixLess
    <3> QED
      BY <1>2, <2>1, <2>2, <3>2
  <2>3. CASE t # table
    BY <1>2, <2>1, <2>3
  <2> QED
    BY <2>2, <2>3
<1> QED
  BY <1>1, <1>6, <1>7, Over

-----------------------------------------------------------------------------
\* A statement that was refused at once has at most added to one file.
LEMMA NotBegun ==
  ASSUME KInv, IInv, pc = "idle", UNCHANGED pc, before' = files, kept' = kept,
         \/ files' = files
         \/ \E t \in DOMAIN files, p \in Piece :
              files' = [files EXCEPT ![t] = files[t] \o p]
  PROVE  KInv'
<1>1. \A t \in DOMAIN files : files[t] \in Piece /\ Len(files[t]) \in Nat
  BY DEF KInv, StoreTyped, Piece
<1>2. \A t \in DOMAIN files : Prefix(files[t], files[t])
  BY <1>1, PrefixSame
<1>3. \A t \in DOMAIN files, p \in Piece :
        files[t] \o p \in Piece /\ Prefix(files[t], files[t] \o p)
  BY <1>1, <1>2, PrefixMore
<1>4. /\ DOMAIN files' = DOMAIN files
      /\ \A t \in DOMAIN files : files'[t] \in Piece /\ Prefix(files[t], files'[t])
  BY <1>1, <1>2, <1>3
<1>5. BytesKept'
  BY <1>4 DEF BytesKept
<1>6. StoreTyped'
  BY <1>1, <1>4 DEF KInv, StoreTyped
<1>7. ReadingTyped' /\ Placed'
  BY DEF ReadingTyped, Placed, Creates, Inserts
<1> QED
  BY <1>5, <1>6, <1>7 DEF KInv

LEMMA CreateKeeps ==
  ASSUME KInv, IInv, NEW s \in Statements, CreateFile(s)
  PROVE  KInv'
<1>1. pc = "idle" /\ before' = files /\ s.command = "CREATE"
  BY DEF CreateFile, Begin
<1>2. CASE BeginFails
  BY <1>1, <1>2, NotBegun DEF BeginFails
<1>3. CASE /\ s.table \notin DOMAIN files
           /\ files' = [t \in DOMAIN files \cup {s.table} |->
                          IF t = s.table THEN <<>> ELSE files[t]]
           /\ attrs' = <<>> /\ kept' = 0 /\ stmt' = s /\ pc' = "bracket"
  <2>1. \A t \in DOMAIN files : files[t] \in Piece /\ Len(files[t]) \in Nat
    BY DEF KInv, StoreTyped, Piece
  <2>2. \A t \in DOMAIN files : t # s.table /\ files'[t] = files[t]
    BY <1>3
  <2>3. files'[s.table] \in Piece
    BY <1>3 DEF Piece
  <2>4. StoreTyped'
    BY <1>1, <1>3, <2>1, <2>2, <2>3 DEF StoreTyped
  <2>5. ReadingTyped'
    BY <1>3 DEF ReadingTyped, Creates, Inserts
  <2>6. Placed'
    BY <1>1, <1>3 DEF Placed, table
  <2>7. BytesKept'
    BY <1>1, <1>3, <2>1, <2>2, PrefixSame DEF BytesKept
  <2> QED
    BY <2>4, <2>5, <2>6, <2>7 DEF KInv
<1> QED
  BY <1>2, <1>3 DEF CreateFile

LEMMA InsertKeeps ==
  ASSUME KInv, IInv, NEW s \in Statements, InsertInto(s)
  PROVE  KInv'
<1>1. pc = "idle" /\ before' = files /\ s.command = "INSERT"
  BY DEF InsertInto, Begin
<1>2. CASE BeginFails
  BY <1>1, <1>2, NotBegun DEF BeginFails
<1>3. CASE /\ s.table \in DOMAIN files /\ HasHeader(files[s.table])
           /\ attrs' = Header(files[s.table])
           /\ files' = [files EXCEPT ![s.table] = Opened(s.table)]
           /\ kept' = Len(files'[s.table])
           /\ stmt' = s /\ pc' = "columns?"
  <2>1. files' = files
    BY <1>3 DEF IInv, FilesTyped, Opened
  <2>2. \A t \in DOMAIN files : files[t] \in Piece /\ Len(files[t]) \in Nat
    BY DEF KInv, StoreTyped, Piece
  <2>3. StoreTyped'
    BY <1>1, <1>3, <2>1, <2>2 DEF StoreTyped
  <2>4. IsTable(attrs')
    BY <1>3, <2>2, HeaderIs DEF IsTable, Piece
  <2>5. ReadingTyped'
    BY <1>3, <2>4 DEF ReadingTyped, Creates, Inserts, IsTable
  <2>6. Placed'
    BY <1>1, <1>3, <2>1 DEF Placed, table
  <2>7. BytesKept'
    BY <1>1, <2>1, <2>2, PrefixSame DEF BytesKept
  <2> QED
    BY <2>3, <2>5, <2>6, <2>7 DEF KInv
<1>4. CASE UNCHANGED <<files, pc, kept>>
  BY <1>1, <1>4, NotBegun
<1>5. CASE /\ s.table \in DOMAIN files /\ UNCHANGED <<pc, kept>>
           /\ \E junk \in {<<>>, <<0>>} :
                files' = [files EXCEPT ![s.table] = @ \o junk]
  <2>1. <<>> \in Piece /\ <<0>> \in Piece
    BY DEF Piece
  <2>2. \E p \in Piece : files' = [files EXCEPT ![s.table] = files[s.table] \o p]
    BY <1>5, <2>1
  <2> QED
    BY <1>1, <1>5, <2>2, NotBegun
<1> QED
  BY <1>2, <1>3, <1>4, <1>5 DEF InsertInto

-----------------------------------------------------------------------------
LEMMA DeclareKeeps ==
  ASSUME KInv, IInv, Declare
  PROVE  KInv'
<1>1. pc = "declare" /\ UNCHANGED <<files, stmt, pc, before, kept>>
  BY DEF Declare, histVars
<1>2. PICK t \in Declared :
        attrs' = Append(attrs, [name |-> toks[NameAt].val,
                                type |-> t.type, size |-> t.size])
  BY DEF Declare
<1>3. attrs \in Seq(Attribute) /\ stmt \in Statements
  BY <1>1 DEF KInv, ReadingTyped, StoreTyped, Creates
<1>4. toks[NameAt].val \in Piece
  <2>1. NameAt \in DOMAIN stmt.toks /\ stmt.toks[NameAt].type = "IDENT"
    BY DEF Declared, Is, toks
  <2>2. stmt.toks[NameAt].val \in Texts
    BY <1>3, <2>1, ValuesAssumption
  <2> QED
    BY <2>2, TextTyped DEF toks
<1>5. t.type \in {"INT", "STRING"} /\ t.size \in Nat
  <2>1. t \in Types(NameAt)
    BY DEF Declared
  <2> DEFINE i == NameAt
  <2>2. t \in Types(i)
    BY <2>1
  <2> HIDE DEF i
  <2> QED
    BY <2>2, SizesAssumption DEF Types
<1>6. attrs' \in Seq(Attribute)
  BY <1>2, <1>3, <1>4, <1>5 DEF Attribute
<1>7. ReadingTyped'
  BY <1>1, <1>6 DEF ReadingTyped, Creates, Inserts
<1> QED
  BY <1>1, <1>7, Reads

LEMMA DeclarationsKeep ==
  ASSUME KInv, IInv, Declarations
  PROVE  KInv'
<1>1. /\ pc = "declare" /\ pc' = "write" /\ pending' = HeaderPieces(attrs)
      /\ UNCHANGED <<files, stmt, before, kept>>
  BY DEF Declarations, histVars
<1>2. attrs \in Seq(Attribute)
  BY <1>1 DEF KInv, ReadingTyped, Creates
<1>3. ReadingTyped'
  BY <1>1, <1>2, HeaderPiecesTyped DEF ReadingTyped, Creates, Inserts
<1> QED
  BY <1>1, <1>3, Reads

LEMMA ElementTyped ==
  ASSUME NEW type \in {"NULL", "INT", "STRING"}
  PROVE  ElemTyped(Element(type))
BY DEF ElemTyped, Element, ValueTyped

LEMMA ColumnsKeep ==
  ASSUME KInv, IInv, Columns
  PROVE  KInv'
<1>1. /\ pc = "columns?" /\ pc' \in {"columns", "values?"}
      /\ UNCHANGED <<files, stmt, attrs, before, kept>>
  BY DEF Columns, histVars
<1>2. IsTable(attrs)
  BY <1>1 DEF KInv, ReadingTyped, Inserts
<1>3. ElemsTyped'
  <2>1. CASE elems' = [k \in DOMAIN attrs |-> Element("NULL")]
    BY <1>1, <2>1, ElementTyped DEF ElemsTyped
  <2>2. CASE elems' = [k \in DOMAIN attrs |-> Element(attrs[k].type)]
    BY <1>1, <1>2, <2>2, ElementTyped DEF ElemsTyped, IsTable
  <2> QED
    BY <2>1, <2>2 DEF Columns
<1>4. ReadingTyped'
  BY <1>1, <1>2, <1>3 DEF ReadingTyped, Creates, Inserts, IsTable
<1> QED
  BY <1>1, <1>4, Reads

\* One element is changed.
LEMMA ElementSet ==
  ASSUME KInv, pc \in {"columns", "values"}, pc' \in {"columns", "values"},
         UNCHANGED <<files, stmt, attrs, before, kept>>,
         NEW k, NEW x, elems' = [elems EXCEPT ![k] = x],
         k \in DOMAIN attrs => ElemTyped(x)
  PROVE  KInv'
<1>1. IsTable(attrs) /\ ElemsTyped
  BY DEF KInv, ReadingTyped, Inserts
<1>2. ElemsTyped'
  BY <1>1 DEF ElemsTyped
<1>3. ReadingTyped'
  BY <1>1, <1>2 DEF ReadingTyped, Creates, Inserts, IsTable
<1> QED
  BY <1>3, Reads

LEMMA ColumnKeeps ==
  ASSUME KInv, IInv, Column
  PROVE  KInv'
<1>1. pc = "columns" /\ UNCHANGED <<files, stmt, attrs, pc, before, kept>>
  BY DEF Column, histVars
<1>2. PICK k \in Named : elems' = [elems EXCEPT ![k] = Element(attrs[k].type)]
  BY DEF Column
<1>3. k \in DOMAIN attrs
  BY DEF Named, Position
<1>4. attrs[k].type \in {"INT", "STRING"}
  BY <1>1, <1>3 DEF KInv, ReadingTyped, Inserts, IsTable
<1>5. ElemTyped(Element(attrs[k].type))
  BY <1>4, ElementTyped
<1> QED
  BY <1>1, <1>2, <1>5, ElementSet

LEMMA ValueKeeps ==
  ASSUME KInv, IInv, Value
  PROVE  KInv'
<1>1. pc = "values" /\ UNCHANGED <<files, stmt, attrs, pc, before, kept>>
  BY DEF Value, histVars
<1>2. PICK k \in Goal, v \in Operands :
        elems' = [elems EXCEPT ![k] = [type |-> v.type, set |-> TRUE, val |-> v.val]]
  BY DEF Value
<1>3. stmt \in Statements
  BY <1>1 DEF KInv, StoreTyped
<1>4. v.type \in {"INT", "STRING"} /\ ValueTyped(v)
  <2>1. \A i \in DOMAIN stmt.toks :
          /\ stmt.toks[i].type = "INT" => stmt.toks[i].val \in Nat
          /\ stmt.toks[i].type = "STRING" => stmt.toks[i].val \in Texts
    BY <1>3, ValuesAssumption
  <2>2. CASE ~Is(ValueAt, "SUB")
    <3> DEFINE i == ValueAt
    <3>1. i \in DOMAIN stmt.toks /\ v.type = stmt.toks[i].type /\ v.val = stmt.toks[i].val
          /\ v.type \in {"INT", "STRING"}
      BY <2>2 DEF Operands, toks
    <3> QED
      BY <2>1, <3>1, TextTyped DEF ValueTyped
  <2>3. CASE Is(ValueAt, "SUB")
    <3> DEFINE i == ValueAt + 1
    <3>1. i \in DOMAIN stmt.toks /\ stmt.toks[i].type = "INT" /\ v.type = "INT"
          /\ v.val = -stmt.toks[i].val
      BY <2>3 DEF Operands, Is, toks
    <3> HIDE DEF i
    <3>2. v.val \in Int
      BY <2>1, <3>1
    <3> QED
      BY <3>1, <3>2 DEF ValueTyped
  <2> QED
    BY <2>2, <2>3
<1>5. ElemTyped([type |-> v.type, set |-> TRUE, val |-> v.val])
  BY <1>4 DEF ElemTyped, ValueTyped
<1> QED
  BY <1>1, <1>2, <1>5, ElementSet

LEMMA ValuesEndKeeps ==
  ASSUME KInv, IInv, ValuesEnd, ~Fail
  PROVE  KInv'
<1>1. pc = "values" /\ pc' = "write" /\ UNCHANGED <<files, stmt, before, kept>>
  BY DEF ValuesEnd
<1>2. IsTable(attrs) /\ ElemsTyped
  BY <1>1 DEF KInv, ReadingTyped, Inserts
<1> DEFINE filled(i, s) ==
             [k \in DOMAIN elems |->
                IF elems[k].set THEN elems[k]
                ELSE [elems[k] EXCEPT !.val = IF elems[k].type = "INT" THEN i ELSE s]]
<1>3. PICK i \in StrayInts, s \in StrayStrings :
         pending' = RowPieces(attrs, filled(i, s))
  BY DEF ValuesEnd
<1>4. i \in Int /\ s \in Piece
  BY ValuesAssumption, TextTyped
<1>5. DOMAIN elems = DOMAIN attrs /\ DOMAIN attrs = 1..Len(attrs) /\ Len(attrs) \in Nat
  BY <1>2 DEF ElemsTyped, IsTable
<1>6. ASSUME NEW k \in DOMAIN attrs
      PROVE  /\ filled(i, s)[k].type \in {"NULL", "INT", "STRING"}
             /\ ValueTyped(filled(i, s)[k])
  <2>1. ElemTyped(elems[k])
    BY <1>2 DEF ElemsTyped
  <2>2. CASE elems[k].set
    BY <1>5, <2>1, <2>2 DEF ElemTyped
  <2>3. CASE ~elems[k].set
    <3> DEFINE x == elems[k]
               y == [x EXCEPT !.val = IF x.type = "INT" THEN i ELSE s]
    <3>1. y.type = x.type /\ y.val = IF x.type = "INT" THEN i ELSE s
      BY <2>1 DEF ElemTyped
    <3>2. filled(i, s)[k] = y
      BY <1>5, <2>3
    <3>3. ValueTyped(y)
      BY <1>4, <3>1 DEF ValueTyped
    <3> QED
      BY <2>1, <3>1, <3>2, <3>3 DEF ElemTyped
  <2> QED
    BY <2>2, <2>3
<1>7. DOMAIN filled(i, s) = DOMAIN attrs /\ Len(filled(i, s)) = Len(attrs)
  BY <1>5
<1> HIDE DEF filled
<1>8. pending' \in Seq(Piece)
  BY <1>2, <1>3, <1>6, <1>7, RowPiecesTyped
<1>9. ReadingTyped'
  BY <1>1, <1>8 DEF ReadingTyped, Creates, Inserts
<1> QED
  BY <1>1, <1>9, Reads

-----------------------------------------------------------------------------
LEMMA KeptInitially == Init => KInv
  BY DEF Init, KInv, StoreTyped, ReadingTyped, Placed, BytesKept, Creates, Inserts

LEMMA KeptInductive == IInv /\ KInv /\ [Next]_vars => KInv'
<1> SUFFICES ASSUME IInv, KInv, [Next]_vars PROVE KInv'
  OBVIOUS
<1>1. CASE \E s \in Statements : CreateFile(s) \/ InsertInto(s)
  BY <1>1, CreateKeeps, InsertKeeps
<1>2. CASE Bracket
  <2>1. stmt.command = "CREATE" /\ pc = "bracket"
    BY <1>2 DEF IInv, WhichCommand, Bracket, Creates
  <2>2. CASE Discard
    BY <2>1, <2>2, OverRemoved
  <2>3. CASE ~Discard
    <3>1. pc' = "declare" /\ UNCHANGED <<files, stmt, attrs, before, kept>>
      BY <1>2, <2>3 DEF Bracket, histVars
    <3>2. attrs \in Seq(Attribute)
      BY <2>1 DEF KInv, ReadingTyped, Creates
    <3>3. ReadingTyped'
      BY <3>1, <3>2 DEF ReadingTyped, Creates, Inserts
    <3> QED
      BY <2>1, <3>1, <3>3, Reads
  <2> QED
    BY <2>2, <2>3
<1>3. CASE Declare
  BY <1>3, DeclareKeeps
<1>4. CASE DeclareFails
  BY <1>4, OverRemoved DEF DeclareFails, IInv, WhichCommand, Creates
<1>5. CASE Declarations
  BY <1>5, DeclarationsKeep
<1>6. CASE CreateEnds
  <2>1. CASE Discard
    BY <1>6, <2>1, OverRemoved DEF CreateEnds
  <2>2. CASE ~Discard
    BY <1>6, <2>2, OverAsItWas DEF CreateEnds, Finish
  <2> QED
    BY <2>1, <2>2
<1>7. CASE Columns
  BY <1>7, ColumnsKeep
<1>8. CASE Column
  BY <1>8, ColumnKeeps
<1>9. CASE ColumnFails \/ ValueFails
  BY <1>9, OverAsItWas DEF ColumnFails, ValueFails, Fail, Finish
<1>10. CASE ColumnsEnd \/ Values
  <2>1. CASE Fail
    BY <2>1, OverAsItWas DEF Fail, Finish
  <2>2. CASE ~Fail
    <3>1. /\ pc \in {"columns", "values?"} /\ pc' \in {"values?", "values"}
          /\ UNCHANGED <<files, stmt, attrs, elems, before, kept>>
      BY <1>10, <2>2 DEF ColumnsEnd, Values, histVars
    <3>2. IsTable(attrs) /\ ElemsTyped
      BY <3>1 DEF KInv, ReadingTyped, Inserts
    <3>3. ReadingTyped'
      BY <3>1, <3>2 DEF ReadingTyped, Creates, Inserts, IsTable, ElemsTyped
    <3> QED
      BY <3>1, <3>3, Reads
  <2> QED
    BY <2>1, <2>2
<1>11. CASE Value
  BY <1>11, ValueKeeps
<1>12. CASE ValuesEnd
  <2>1. CASE Fail
    BY <2>1, OverAsItWas DEF Fail, Finish
  <2>2. CASE ~Fail
    BY <1>12, <2>2, ValuesEndKeeps
  <2> QED
    BY <2>1, <2>2
<1>13. CASE InsertEnds
  BY <1>13, OverAsItWas DEF InsertEnds, Finish
<1>14. CASE Write
  <2>1. /\ pc = "write" /\ pc' = "write" /\ UNCHANGED <<stmt, before, kept>>
        /\ files' = [files EXCEPT ![table] = files[table] \o Head(pending)]
        /\ pending # <<>> /\ pending' = Tail(pending)
    BY <1>14 DEF Write, Added, histVars
  <2>2. pending \in Seq(Piece)
    BY <2>1 DEF KInv, ReadingTyped
  <2>3. Head(pending) \in Piece /\ pending' \in Seq(Piece)
    BY <2>1, <2>2
  <2> QED
    BY <2>1, <2>3, Grows
<1>15. CASE Full
  <2>1. /\ pc = "write" /\ pc' = "write" /\ UNCHANGED <<stmt, before, kept>>
        /\ pending # <<>> /\ pending' = <<>>
    BY <1>15 DEF Full, readVars
  <2>2. PICK k \in 0..(Len(Head(pending)) - 1) :
           files' = [files EXCEPT ![table] =
                       files[table] \o SubSeq(Head(pending), 1, k)]
    BY <1>15 DEF Full, Added
  <2>3. pending \in Seq(Piece)
    BY <2>1 DEF KInv, ReadingTyped
  <2>4. Head(pending) \in Piece
    BY <2>1, <2>3
  <2>5. SubSeq(Head(pending), 1, k) \in Piece
    <3> DEFINE p == Head(pending)
    <3>1. p \in Seq(Nat) /\ k \in 0..(Len(p) - 1)
      BY <2>4 DEF Piece
    <3> HIDE DEF p
    <3>2. SubSeq(p, 1, k) \in Seq(Nat)
      BY <3>1
    <3> QED
      BY <3>2 DEF Piece, p
  <2>6. pending' \in Seq(Piece)
    BY <2>1
  <2> QED
    BY <2>1, <2>2, <2>5, <2>6, Grows
<1>16. CASE Crash
  BY <1>16, Cut
<1>17. CASE UNCHANGED vars
  <2>1. UNCHANGED <<files, stmt, attrs, elems, pending, pc, kept, before>>
    BY <1>17 DEF vars, histVars, readVars
  <2> QED
    BY <2>1 DEF KInv, StoreTyped, ReadingTyped, ElemsTyped, IsTable, Placed,
       BytesKept, table
<1> QED
  BY <1>1, <1>2, <1>3, <1>4, <1>5, <1>6, <1>7, <1>8, <1>9, <1>10, <1>11, <1>12,
     <1>13, <1>14, <1>15, <1>16, <1>17 DEF Next

LEMMA KeptTuples == KInv => TuplesKept
<1> SUFFICES ASSUME KInv, NEW t \in DOMAIN before, Readable(before[t])
             PROVE  /\ t \in DOMAIN files /\ HasHeader(files[t])
                    /\ Header(files[t]) = Header(before[t])
                    /\ Len(Tuples(before[t])) <= Len(Tuples(files[t]))
                    /\ \A n \in DOMAIN Tuples(before[t]) :
                         Tuples(files[t])[n] = Tuples(before[t])[n]
  BY DEF TuplesKept
<1>1. /\ t \in DOMAIN files /\ Prefix(before[t], files[t])
      /\ before[t] \in Seq(Nat) /\ files[t] \in Seq(Nat)
  BY DEF KInv, BytesKept, StoreTyped, Piece
<1>2. HasHeader(before[t]) /\ before[t][1] > 0
  BY DEF Readable
<1> QED
  BY <1>1, <1>2, HeaderKept, TuplesStay

(* The tuples a table held when a statement began are still in it, with    *)
(* the values they had, whatever CREATE and INSERT write since, and also   *)
(* where they are cut short by a crash or by a full storage.               *)
THEOREM RowsKept == Spec => []TuplesKept
<1>1. IInv /\ KInv /\ [Next]_vars => IInv' /\ KInv'
  BY Inductive, KeptInductive
<1>2. Init => IInv /\ KInv
  BY Initially, KeptInitially
<1>3. KInv => TuplesKept
  BY KeptTuples
<1> QED
  BY <1>1, <1>2, <1>3, PTL DEF Spec

-----------------------------------------------------------------------------
(* What is flattened, one sequence more at a time.                          *)
LEMMA FlatSteps ==
  ASSUME NEW X, NEW ss \in Seq(Seq(X)), Len(ss) > 0
  PROVE  \E f \in [1..Len(ss) -> Seq(X)] :
           /\ f[1] = ss[1]
           /\ \A k \in 2..Len(ss) : f[k] = f[k - 1] \o ss[k]
           /\ FlattenSeq(ss) = f[Len(ss)]
<1>e. PICK e \in Nat : e = Len(ss)
  OBVIOUS
<1> DEFINE T == Seq(X)
           G == [k \in 1..e |-> [y \in T |-> y \o ss[k]]]
           Solves(u) == u = [i \in 1..e |-> IF i = 1 THEN ss[i] ELSE u[i - 1] \o ss[i]]
           u == CHOOSE v : Solves(v)
<1>0. /\ e \in Nat /\ e > 0 /\ \A k \in 1..e : ss[k] \in T
      /\ \A x, y \in T : x \o y \in T
  BY <1>e
<1> HIDE DEF T
<1>1. G \in [1..e -> [T -> T]]
  BY <1>0
<1>2. \A k \in 1..e, y \in T : G[k][y] = y \o ss[k]
  OBVIOUS
<1>8. FlattenSeq(ss) = u[e]
  BY <1>0, <1>e DEF FlattenSeq
<1> HIDE DEF G
<1>3. PICK f : Iterates(f, e, G, T, ss[1])
  <2>1. ss[1] \in T
    BY <1>0
  <2> QED
    BY <1>0, <1>1, <2>1, Recursion
<1>4. f \in [1..e -> T]
  BY <1>3 DEF Iterates
<1>5. ASSUME NEW k \in 1..e
      PROVE  f[k] = IF k = 1 THEN ss[k] ELSE f[k - 1] \o ss[k]
  <2>1. k # 1 => f[k - 1] \in T
    BY <1>0, <1>4
  <2>2. k # 1 => G[k][f[k - 1]] = f[k - 1] \o ss[k]
    BY <1>2, <2>1
  <2>3. f[k] = IF k = 1 THEN ss[1] ELSE G[k][f[k - 1]]
    BY <1>3 DEF Iterates
  <2> QED
    BY <2>2, <2>3
<1>6. f = [i \in 1..e |-> IF i = 1 THEN ss[i] ELSE f[i - 1] \o ss[i]]
  BY <1>4, <1>5
<1>7. Solves(u)
  BY <1>6
<1> HIDE DEF u
<1>9. \A k \in 1..e : u[k] = IF k = 1 THEN ss[k] ELSE u[k - 1] \o ss[k]
  BY <1>7
<1>10. Alike(u, f, e)
  <2>1. u[1] = f[1]
    BY <1>0, <1>5, <1>9
  <2>2. ASSUME NEW k \in 2..e, u[k - 1] = f[k - 1] PROVE u[k] = f[k]
    BY <2>2, <1>0, <1>5, <1>9
  <2> QED
    BY <2>1, <2>2 DEF Alike
<1>11. Same(u, f, e)
  BY <1>0, <1>10, Agree
<1>12. FlattenSeq(ss) = f[e]
  BY <1>0, <1>8, <1>11 DEF Same
<1>13. f[1] = ss[1] /\ \A k \in 2..e : f[k] = f[k - 1] \o ss[k]
  <2>1. f[1] = ss[1]
    BY <1>0, <1>5
  <2>2. ASSUME NEW k \in 2..e PROVE f[k] = f[k - 1] \o ss[k]
    <3>1. k \in 1..e /\ k # 1
      BY <1>0
    <3> QED
      BY <1>5, <3>1
  <2> QED
    BY <2>1, <2>2
<1> QED
  BY <1>e, <1>4, <1>12, <1>13 DEF T

LEMMA FlatNone == FlattenSeq(<<>>) = <<>>
<1>1. Len(<<>>) = 0
  OBVIOUS
<1> QED
  BY <1>1 DEF FlattenSeq

LEMMA FlatMore ==
  ASSUME NEW X, NEW ss \in Seq(Seq(X)), NEW y \in Seq(X)
  PROVE  FlattenSeq(Append(ss, y)) = FlattenSeq(ss) \o y
<1>e. PICK e \in Nat : e = Len(ss)
  OBVIOUS
<1> DEFINE tt == Append(ss, y)
<1>1. /\ e \in Nat /\ tt \in Seq(Seq(X)) /\ Len(tt) = e + 1
      /\ tt[e + 1] = y /\ \A k \in 1..e : tt[k] = ss[k]
  BY <1>e
<1> HIDE DEF tt
<1>2. PICK g \in [1..(e + 1) -> Seq(X)] :
        /\ g[1] = tt[1]
        /\ \A k \in 2..(e + 1) : g[k] = g[k - 1] \o tt[k]
        /\ FlattenSeq(tt) = g[e + 1]
  <2>1. Len(tt) = e + 1 /\ Len(tt) > 0 /\ tt \in Seq(Seq(X))
    BY <1>1
  <2>2. \E g \in [1..Len(tt) -> Seq(X)] :
          /\ g[1] = tt[1]
          /\ \A k \in 2..Len(tt) : g[k] = g[k - 1] \o tt[k]
          /\ FlattenSeq(tt) = g[Len(tt)]
    BY <2>1, FlatSteps
  <2> QED
    BY <2>1, <2>2
<1>3. CASE e = 0
  <2>1. FlattenSeq(ss) = <<>>
    <3>1. Len(ss) = 0
      BY <1>e, <1>3
    <3>2. ss = <<>>
      BY <3>1
    <3> QED
      BY <3>2, FlatNone
  <2>2. FlattenSeq(tt) = y
    BY <1>1, <1>2, <1>3
  <2>3. <<>> \o y = y
    OBVIOUS
  <2> QED
    BY <2>1, <2>2, <2>3 DEF tt
<1>4. CASE e # 0
  <2>1. PICK f \in [1..e -> Seq(X)] :
          /\ f[1] = ss[1]
          /\ \A k \in 2..e : f[k] = f[k - 1] \o ss[k]
          /\ FlattenSeq(ss) = f[e]
    <3>1. Len(ss) > 0
      BY <1>e, <1>4
    <3>2. \E f \in [1..Len(ss) -> Seq(X)] :
            /\ f[1] = ss[1]
            /\ \A k \in 2..Len(ss) : f[k] = f[k - 1] \o ss[k]
            /\ FlattenSeq(ss) = f[Len(ss)]
      BY <3>1, FlatSteps
    <3> QED
      BY <1>e, <3>2
  <2>2. Alike(g, f, e)
    <3>1. g[1] = f[1]
      BY <1>1, <1>2, <1>4, <2>1
    <3>2. ASSUME NEW k \in 2..e, g[k - 1] = f[k - 1] PROVE g[k] = f[k]
      <4>1. k \in 2..(e + 1) /\ k \in 1..e
        BY <1>1
      <4> QED
        BY <1>1, <1>2, <2>1, <3>2, <4>1
    <3> QED
      BY <3>1, <3>2 DEF Alike
  <2>3. g[e] = f[e]
    <3>1. Same(g, f, e)
      BY <2>2, Agree
    <3>2. e \in 1..e
      BY <1>4
    <3> QED
      BY <3>1, <3>2 DEF Same
  <2>4. e + 1 \in 2..(e + 1) /\ (e + 1) - 1 = e
    BY <1>1, <1>4
  <2>5. g[e + 1] = g[e] \o tt[e + 1]
    BY <1>2, <2>4
  <2> QED
    BY <1>1, <1>2, <2>1, <2>3, <2>5 DEF tt
<1> QED
  BY <1>3, <1>4

\* A string, its 0, and what is read of them.
LEMMA StringBack ==
  ASSUME NEW x \in Texts
  PROVE  BytesString(Append(x, 0)) = x
<1> DEFINE n == Len(x)
           b == Append(x, 0)
           Ends(j) == /\ \A k \in 1..j : b[k] # 0
                      /\ j < Len(b) => b[j + 1] = 0
           m == CHOOSE j \in 0..Len(b) : Ends(j)
<1>1. n \in Nat /\ \A k \in 1..n : x[k] \in 1..255
  <2>1. x \in Seq(1..255)
    BY DEF Texts
  <2> DEFINE S == 1..255
  <2>2. x \in Seq(S)
    BY <2>1
  <2> HIDE DEF S
  <2>3. n \in Nat /\ \A k \in 1..n : x[k] \in S
    BY <2>2
  <2> QED
    BY <2>3 DEF S
<1>2. Len(b) = n + 1 /\ b[n + 1] = 0 /\ \A k \in 1..n : b[k] = x[k]
  BY DEF Texts
<1>3. ASSUME NEW k \in 1..n PROVE b[k] # 0
  <2> DEFINE v == b[k]
  <2>1. v \in 1..255
    BY <1>1, <1>2
  <2> HIDE DEF v
  <2>2. v # 0
    BY <2>1
  <2> QED
    BY <2>2 DEF v
<1>4. SubSeq(b, 1, n) = x
  BY DEF Texts
<1>5. BytesString(b) = SubSeq(b, 1, m)
  BY DEF BytesString
<1> HIDE DEF b
<1>6. n \in 0..Len(b) /\ Ends(n)
  BY <1>1, <1>2, <1>3
<1>7. m \in 0..Len(b) /\ Ends(m)
  BY <1>6
<1> HIDE DEF m
<1>8. m = n
  <2>1. ~(m < n)
    <3> SUFFICES ASSUME m < n PROVE FALSE
      OBVIOUS
    <3>1. m + 1 \in 1..n /\ b[m + 1] = 0
      BY <1>1, <1>2, <1>7
    <3> QED
      BY <1>3, <3>1
  <2>2. ~(m > n)
    <3> SUFFICES ASSUME m > n PROVE FALSE
      OBVIOUS
    <3>1. n + 1 \in 1..m
      BY <1>1, <1>7
    <3> QED
      BY <1>2, <1>7, <3>1
  <2> QED
    BY <1>1, <1>7, <2>1, <2>2
<1> QED
  BY <1>4, <1>5, <1>8 DEF b

-----------------------------------------------------------------------------
(* The header that CREATE writes, a description for each attribute.        *)
Cat(x, y) == x \o y

LEMMA CatTyped ==
  ASSUME NEW S, NEW x \in Seq(S), NEW y \in Seq(S)
  PROVE  Cat(x, y) \in Seq(S) /\ Len(Cat(x, y)) = Len(x) + Len(y)
BY DEF Cat

LEMMA CatTwice ==
  ASSUME NEW S, NEW x \in Seq(S), NEW y \in Seq(S), NEW z \in Seq(S)
  PROVE  Cat(Cat(x, y), z) = Cat(x, Cat(y, z))
BY DEF Cat

LEMMA CatOne ==
  ASSUME NEW S, NEW x \in Seq(S), NEW i \in S
  PROVE  Append(x, i) = Cat(x, <<i>>) /\ <<i>> \in Seq(S) /\ Len(<<i>>) = 1
BY DEF Cat

\* An element between two sequences, behind a third.
Between(x, c, i, t) == x \o (c \o <<i>> \o t) = Append(x \o c, i) \o t

LEMMA PutBetween ==
  ASSUME NEW S, NEW x \in Seq(S), NEW c \in Seq(S), NEW i \in S, NEW t \in Seq(S)
  PROVE  /\ Between(x, c, i, t) /\ c \o <<i>> \o t \in Seq(S)
         /\ Len(c \o <<i>> \o t) = Len(c) + 1 + Len(t)
<1>1. PICK d \in Seq(S) : d = <<i>> /\ Len(d) = 1
  BY CatOne
<1>2. PICK e \in Seq(S) : e = Cat(c, d) /\ Len(e) = Len(c) + 1
  BY <1>1, CatTyped
<1>3. PICK y \in Seq(S) : y = Cat(x, c)
  BY CatTyped
<1>4. Cat(e, t) \in Seq(S) /\ Len(Cat(e, t)) = Len(c) + 1 + Len(t)
  BY <1>2, CatTyped
<1>5. Cat(x, Cat(e, t)) = Cat(Cat(x, e), t)
  BY CatTwice
<1>6. Cat(x, e) = Cat(y, d)
  BY <1>2, <1>3, CatTwice
<1>7. Cat(y, d) = Append(y, i)
  BY <1>1, CatOne
<1>8. Cat(x, Cat(Cat(c, <<i>>), t)) = Cat(Append(Cat(x, c), i), t)
  BY <1>1, <1>2, <1>3, <1>5, <1>6, <1>7
<1> QED
  BY <1>1, <1>2, <1>4, <1>8 DEF Cat, Between

LEMMA Joined ==
  ASSUME NEW x \in Piece, NEW y \in Piece
  PROVE  Cat(x, y) \in Piece
BY DEF Piece, Cat

LEMMA Associates ==
  ASSUME NEW x \in Piece, NEW y \in Piece, NEW z \in Piece
  PROVE  Cat(Cat(x, y), z) = Cat(x, Cat(y, z))
BY DEF Piece, Cat

Regrouped(f, p, q, r, s, t) ==
  ((((f \o p) \o q) \o r) \o s) \o t = f \o ((((p \o q) \o r) \o s) \o t)

LEMMA FiveJoined ==
  ASSUME NEW f \in Piece, NEW p \in Piece, NEW q \in Piece, NEW r \in Piece,
         NEW s \in Piece, NEW t \in Piece
  PROVE  Regrouped(f, p, q, r, s, t)
<1>1. Cat(p, q) \in Piece /\ Cat(Cat(f, p), q) = Cat(f, Cat(p, q))
  BY Joined, Associates
<1>2. PICK u \in Piece : u = Cat(p, q) /\ Cat(Cat(f, p), q) = Cat(f, u)
  BY <1>1
<1>3. /\ Cat(u, r) \in Piece /\ Cat(Cat(f, u), r) = Cat(f, Cat(u, r))
  BY <1>2, Joined, Associates
<1>4. PICK v \in Piece : v = Cat(u, r) /\ Cat(Cat(f, u), r) = Cat(f, v)
  BY <1>3
<1>5. /\ Cat(v, s) \in Piece /\ Cat(Cat(f, v), s) = Cat(f, Cat(v, s))
  BY <1>4, Joined, Associates
<1>6. PICK w \in Piece : w = Cat(v, s) /\ Cat(Cat(f, v), s) = Cat(f, w)
  BY <1>5
<1>7. Cat(Cat(f, w), t) = Cat(f, Cat(w, t))
  BY <1>6, Associates
<1>8. Cat(Cat(Cat(Cat(Cat(f, p), q), r), s), t)
        = Cat(f, Cat(Cat(Cat(Cat(p, q), r), s), t))
  BY <1>2, <1>4, <1>6, <1>7
<1> QED
  BY <1>8 DEF Cat, Regrouped

LEMMA FlatPiece ==
  ASSUME NEW ss \in Seq(Piece), NEW y \in Piece
  PROVE  /\ Append(ss, y) \in Seq(Piece)
         /\ FlattenSeq(Append(ss, y)) = FlattenSeq(ss) \o y
         /\ FlattenSeq(ss) \in Piece
<1>1. ss \in Seq(Seq(Nat)) /\ y \in Seq(Nat)
  BY DEF Piece
<1> QED
  BY <1>1, FlatMore, Flattened DEF Piece

MoreBy(s, y, t) ==
  /\ t = Append(s, y) /\ Len(t) = Len(s) + 1 /\ t[Len(t)] = y
  /\ \A i \in 1..Len(s) : t[i] = s[i]

LEMMA AppendIs ==
  ASSUME NEW S, NEW s \in Seq(S), NEW y \in S
  PROVE  \E t \in Seq(S) : MoreBy(s, y, t)
<1>1. Append(s, y) \in Seq(S)
  OBVIOUS
<1>2. Len(Append(s, y)) = Len(s) + 1
  OBVIOUS
<1>3. Append(s, y)[Len(s) + 1] = y
  OBVIOUS
<1>4. \A i \in 1..Len(s) : Append(s, y)[i] = s[i]
  OBVIOUS
<1> QED
  BY <1>1, <1>2, <1>3, <1>4 DEF MoreBy

\* One after the other, or all at once.
FiveMore(s, p, q, r, u, v) ==
  Append(Append(Append(Append(Append(s, p), q), r), u), v) = s \o <<p, q, r, u, v>>

LEMMA AppendedFive ==
  ASSUME NEW S, NEW s \in Seq(S), NEW p \in S, NEW q \in S, NEW r \in S,
         NEW u \in S, NEW v \in S
  PROVE  FiveMore(s, p, q, r, u, v)
<1>1. PICK n \in Nat : n = Len(s)
  OBVIOUS
<1>2. PICK s1 \in Seq(S) : /\ s1 = Append(s, p) /\ Len(s1) = n + 1
                           /\ s1[n + 1] = p /\ \A i \in 1..n : s1[i] = s[i]
  <2>1. PICK t \in Seq(S) : MoreBy(s, p, t)
    BY AppendIs
  <2>2. Len(t) = n + 1 /\ Len(s) = n
    BY <1>1, <2>1 DEF MoreBy
  <2> QED
    BY <2>1, <2>2 DEF MoreBy
<1>3. PICK s2 \in Seq(S) : /\ s2 = Append(s1, q) /\ Len(s2) = n + 2
                           /\ s2[n + 2] = q /\ \A i \in 1..(n + 1) : s2[i] = s1[i]
  <2>1. PICK t \in Seq(S) : MoreBy(s1, q, t)
    BY AppendIs
  <2>2. Len(t) = n + 2 /\ Len(s1) = n + 1
    BY <1>2, <2>1 DEF MoreBy
  <2> QED
    BY <2>1, <2>2 DEF MoreBy
<1>4. PICK s3 \in Seq(S) : /\ s3 = Append(s2, r) /\ Len(s3) = n + 3
                           /\ s3[n + 3] = r /\ \A i \in 1..(n + 2) : s3[i] = s2[i]
  <2>1. PICK t \in Seq(S) : MoreBy(s2, r, t)
    BY AppendIs
  <2>2. Len(t) = n + 3 /\ Len(s2) = n + 2
    BY <1>3, <2>1 DEF MoreBy
  <2> QED
    BY <2>1, <2>2 DEF MoreBy
<1>5. PICK s4 \in Seq(S) : /\ s4 = Append(s3, u) /\ Len(s4) = n + 4
                           /\ s4[n + 4] = u /\ \A i \in 1..(n + 3) : s4[i] = s3[i]
  <2>1. PICK t \in Seq(S) : MoreBy(s3, u, t)
    BY AppendIs
  <2>2. Len(t) = n + 4 /\ Len(s3) = n + 3
    BY <1>4, <2>1 DEF MoreBy
  <2> QED
    BY <2>1, <2>2 DEF MoreBy
<1>6. PICK s5 \in Seq(S) : /\ s5 = Append(s4, v) /\ Len(s5) = n + 5
                           /\ s5[n + 5] = v /\ \A i \in 1..(n + 4) : s5[i] = s4[i]
  <2>1. PICK t \in Seq(S) : MoreBy(s4, v, t)
    BY AppendIs
  <2>2. Len(t) = n + 5 /\ Len(s4) = n + 4
    BY <1>5, <2>1 DEF MoreBy
  <2> QED
    BY <2>1, <2>2 DEF MoreBy
<1>7. PICK d \in Seq(S) : /\ d = <<p, q, r, u, v>> /\ Len(d) = 5 /\ d[1] = p /\ d[2] = q
                          /\ d[3] = r /\ d[4] = u /\ d[5] = v
  <2>1. <<p, q, r, u, v>> \in Seq(S)
    OBVIOUS
  <2> QED
    BY <2>1
<1>8. PICK t \in Seq(S) : /\ t = s \o d /\ Len(t) = n + 5 /\ \A i \in 1..n : t[i] = s[i]
                          /\ \A i \in 1..5 : t[n + i] = d[i]
  <2>1. s \o d \in Seq(S)
    OBVIOUS
  <2>2. Len(s \o d) = n + 5
    BY <1>1, <1>7
  <2>3. \A i \in 1..n : (s \o d)[i] = s[i]
    BY <1>1
  <2>4. \A i \in 1..5 : (s \o d)[n + i] = d[i]
    BY <1>1, <1>7
  <2> QED
    BY <2>1, <2>2, <2>3, <2>4
<1>9. /\ t[n + 1] = p /\ t[n + 2] = q /\ t[n + 3] = r /\ t[n + 4] = u /\ t[n + 5] = v
  <2>1. 1 \in 1..5 /\ 2 \in 1..5 /\ 3 \in 1..5 /\ 4 \in 1..5 /\ 5 \in 1..5
    OBVIOUS
  <2> QED
    BY <1>7, <1>8, <2>1
<1>10. ASSUME NEW i \in 1..(n + 5) PROVE s5[i] = t[i]
  <2>1. CASE i \in 1..n
    <3>1. i \in 1..(n + 4) /\ i \in 1..(n + 3) /\ i \in 1..(n + 2) /\ i \in 1..(n + 1)
      BY <2>1
    <3> QED
      BY <1>2, <1>3, <1>4, <1>5, <1>6, <1>8, <2>1, <3>1
  <2>2. CASE i = n + 1
    <3>1. i \in 1..(n + 4) /\ i \in 1..(n + 3) /\ i \in 1..(n + 2) /\ i \in 1..(n + 1)
      BY <2>2
    <3> QED
      BY <1>2, <1>3, <1>4, <1>5, <1>6, <1>9, <2>2, <3>1
  <2>3. CASE i = n + 2
    <3>1. i \in 1..(n + 4) /\ i \in 1..(n + 3) /\ i \in 1..(n + 2)
      BY <2>3
    <3> QED
      BY <1>3, <1>4, <1>5, <1>6, <1>9, <2>3, <3>1
  <2>4. CASE i = n + 3
    <3>1. i \in 1..(n + 4) /\ i \in 1..(n + 3)
      BY <2>4
    <3> QED
      BY <1>4, <1>5, <1>6, <1>9, <2>4, <3>1
  <2>5. CASE i = n + 4
    <3>1. i \in 1..(n + 4)
      BY <2>5
    <3> QED
      BY <1>5, <1>6, <1>9, <2>5, <3>1
  <2>6. CASE i = n + 5
    BY <1>6, <1>9, <2>6
  <2>7. i \in 1..n \/ i = n + 1 \/ i = n + 2 \/ i = n + 3 \/ i = n + 4 \/ i = n + 5
    OBVIOUS
  <2> QED
    BY <2>1, <2>2, <2>3, <2>4, <2>5, <2>6, <2>7
<1>11. s5 = t
  <2>1. s5 = [i \in 1..(n + 5) |-> s5[i]]
    <3>1. s5 = [i \in 1..Len(s5) |-> s5[i]]
      OBVIOUS
    <3> QED
      BY <1>6, <3>1
  <2>2. t = [i \in 1..(n + 5) |-> t[i]]
    <3>1. t = [i \in 1..Len(t) |-> t[i]]
      OBVIOUS
    <3> QED
      BY <1>8, <3>1
  <2> QED
    BY <1>10, <2>1, <2>2
<1>12. Append(Append(Append(Append(Append(s, p), q), r), u), v) = s5
  BY <1>2, <1>3, <1>4, <1>5, <1>6
<1>13. s \o <<p, q, r, u, v>> = t
  BY <1>7, <1>8
<1> QED
  BY <1>11, <1>12, <1>13 DEF FiveMore

Spread(ss, p, q, r, s, t) ==
  FlattenSeq(ss \o <<p, q, r, s, t>>) = FlattenSeq(ss) \o (p \o q \o r \o s \o t)

LEMMA FlatFive ==
  ASSUME NEW ss \in Seq(Piece), NEW p \in Piece, NEW q \in Piece, NEW r \in Piece,
         NEW s \in Piece, NEW t \in Piece
  PROVE  Spread(ss, p, q, r, s, t)
<1>1. PICK s1 \in Seq(Piece) :
        s1 = Append(ss, p) /\ FlattenSeq(s1) = FlattenSeq(ss) \o p
  BY FlatPiece
<1>2. PICK s2 \in Seq(Piece) :
        s2 = Append(s1, q) /\ FlattenSeq(s2) = FlattenSeq(s1) \o q
  BY FlatPiece
<1>3. PICK s3 \in Seq(Piece) :
        s3 = Append(s2, r) /\ FlattenSeq(s3) = FlattenSeq(s2) \o r
  BY FlatPiece
<1>4. PICK s4 \in Seq(Piece) :
        s4 = Append(s3, s) /\ FlattenSeq(s4) = FlattenSeq(s3) \o s
  BY FlatPiece
<1>5. PICK s5 \in Seq(Piece) :
        s5 = Append(s4, t) /\ FlattenSeq(s5) = FlattenSeq(s4) \o t
  BY FlatPiece
<1>6. s5 = ss \o <<p, q, r, s, t>>
  <2>1. Append(Append(Append(Append(Append(ss, p), q), r), s), t) = ss \o <<p, q, r, s, t>>
    <3>1. FiveMore(ss, p, q, r, s, t)
      BY AppendedFive
    <3> QED
      BY <3>1 DEF FiveMore
  <2> QED
    BY <1>1, <1>2, <1>3, <1>4, <1>5, <2>1
<1>7. PICK f \in Piece : f = FlattenSeq(ss)
  BY FlatPiece
<1>8. ((((f \o p) \o q) \o r) \o s) \o t = f \o ((((p \o q) \o r) \o s) \o t)
  <2>1. f \in Piece
    BY <1>7
  <2>2. Regrouped(f, p, q, r, s, t)
    BY <2>1, FiveJoined
  <2> QED
    BY <2>2 DEF Regrouped
<1> QED
  BY <1>1, <1>2, <1>3, <1>4, <1>5, <1>6, <1>7, <1>8 DEF Spread

-----------------------------------------------------------------------------
(* The header that is written for the attributes a, and what is read of it. *)
Declarable(a) ==
  /\ a \in Seq(Attribute) /\ Len(a) <= 255
  /\ \A k \in DOMAIN a : a[k].name \in Texts /\ Len(a[k].name) < 255

TypeByte(a, k) == IF a[k].type = "INT" THEN 0 ELSE 1
Zeroed(a, k)   == Append(a[k].name, 0)
Description(a, k) ==
  <<Len(a[k].name) + 1>> \o Zeroed(a, k) \o <<TypeByte(a, k)>>
    \o <<OffsetOf(a, k)>> \o <<a[k].size>>

\* B[k] is the file when the first k descriptions are in it.
Layout(a, B) ==
  /\ B \in [0..Len(a) -> Seq(Nat)]
  /\ B[0] = <<Len(a)>>
  /\ \A k \in 1..Len(a) : B[k] = B[k - 1] \o Description(a, k)
  /\ FlattenSeq(HeaderPieces(a)) = B[Len(a)]

LEMMA OffsetTyped ==
  ASSUME NEW a \in Seq(Attribute), NEW k \in DOMAIN a
  PROVE  /\ [j \in 1..(k - 1) |-> a[j].size] \in Seq(Int)
         /\ OffsetOf(a, k) \in Nat
<1>1. k - 1 \in Nat /\ \A j \in 1..(k - 1) : j \in DOMAIN a
  OBVIOUS
<1>2. \A j \in DOMAIN a : a[j].size \in Int
  <2>1. \A j \in DOMAIN a : a[j] \in Attribute
    OBVIOUS
  <2> QED
    BY <2>1 DEF Attribute
<1> DEFINE n == k - 1
<1> HIDE DEF n
<1>3. n \in Nat /\ \A j \in 1..n : a[j].size \in Int
  BY <1>1, <1>2 DEF n
<1>4. [j \in 1..n |-> a[j].size] \in Seq(Int)
  BY <1>3
<1>5. [j \in 1..(k - 1) |-> a[j].size] \in Seq(Int)
  BY <1>4 DEF n
<1>6. Sum([j \in 1..(k - 1) |-> a[j].size]) \in Int
  BY <1>5, SumInt
<1> QED
  BY <1>5, <1>6 DEF OffsetOf

LEMMA OneByte ==
  ASSUME NEW x \in Seq(Nat), NEW y \in Nat, NEW l \in Nat, Len(x) = l
  PROVE  /\ x \o <<y>> \in Seq(Nat) /\ Len(x \o <<y>>) = l + 1
         /\ (x \o <<y>>)[l + 1] = y
         /\ \A i \in 1..l : (x \o <<y>>)[i] = x[i]
OBVIOUS

LEMMA DescriptionIs ==
  ASSUME NEW a, Declarable(a), NEW k \in DOMAIN a, NEW l, l = Len(a[k].name)
  PROVE  /\ l \in Nat /\ Description(a, k) \in Seq(Nat)
         /\ Len(Description(a, k)) = l + 5
         /\ Description(a, k)[1] = l + 1
         /\ SubSeq(Description(a, k), 2, l + 2) = Zeroed(a, k)
         /\ Description(a, k)[l + 3] = TypeByte(a, k)
         /\ Description(a, k)[l + 4] = OffsetOf(a, k)
         /\ Description(a, k)[l + 5] = a[k].size
<1>1. a[k] \in Attribute /\ a \in Seq(Attribute)
  BY DEF Declarable
<1>2. a[k].name \in Seq(Nat) /\ a[k].size \in Nat
  BY <1>1 DEF Attribute, Piece
<1>3. OffsetOf(a, k) \in Nat /\ TypeByte(a, k) \in Nat
  BY <1>1, OffsetTyped DEF TypeByte
<1>4. Zeroed(a, k) \in Seq(Nat) /\ Len(Zeroed(a, k)) = l + 1 /\ l \in Nat
  BY <1>2 DEF Zeroed
<1> DEFINE z == Zeroed(a, k)
           t == TypeByte(a, k)
           o == OffsetOf(a, k)
           s == a[k].size
<1>5. z \in Seq(Nat) /\ Len(z) = l + 1 /\ t \in Nat /\ o \in Nat /\ s \in Nat
  BY <1>2, <1>3, <1>4
<1>6. Description(a, k) = <<l + 1>> \o z \o <<t>> \o <<o>> \o <<s>>
  BY DEF Description
<1> HIDE DEF z, t, o, s
<1> DEFINE d == <<l + 1>> \o z \o <<t>> \o <<o>> \o <<s>>
<1>7. /\ d \in Seq(Nat) /\ Len(d) = l + 5 /\ d[1] = l + 1
      /\ d[l + 3] = t /\ d[l + 4] = o /\ d[l + 5] = s
      /\ \A i \in 1..(l + 1) : d[i + 1] = z[i]
  <2> DEFINE d2 == <<l + 1>> \o z
             d3 == d2 \o <<t>>
             d4 == d3 \o <<o>>
             d5 == d4 \o <<s>>
  <2>1. /\ d2 \in Seq(Nat) /\ Len(d2) = l + 2 /\ d2[1] = l + 1
        /\ \A i \in 1..(l + 1) : d2[i + 1] = z[i]
    BY <1>4, <1>5
  <2>5. d = d5
    OBVIOUS
  <2> HIDE DEF d, d2
  <2>2. /\ d3 \in Seq(Nat) /\ Len(d3) = l + 3 /\ d3[l + 3] = t
        /\ \A i \in 1..(l + 2) : d3[i] = d2[i]
    <3>1. l + 2 \in Nat /\ (l + 2) + 1 = l + 3 /\ d2 \in Seq(Nat) /\ Len(d2) = l + 2 /\ t \in Nat
      BY <1>4, <1>5, <2>1
    <3> QED
      BY <3>1, OneByte
  <2> HIDE DEF d3
  <2>3. /\ d4 \in Seq(Nat) /\ Len(d4) = l + 4 /\ d4[l + 4] = o
        /\ \A i \in 1..(l + 3) : d4[i] = d3[i]
    <3>1. l + 3 \in Nat /\ (l + 3) + 1 = l + 4 /\ d3 \in Seq(Nat) /\ Len(d3) = l + 3 /\ o \in Nat
      BY <1>4, <1>5, <2>2
    <3> QED
      BY <3>1, OneByte
  <2> HIDE DEF d4
  <2>4. /\ d5 \in Seq(Nat) /\ Len(d5) = l + 5 /\ d5[l + 5] = s
        /\ \A i \in 1..(l + 4) : d5[i] = d4[i]
    <3>1. l + 4 \in Nat /\ (l + 4) + 1 = l + 5 /\ d4 \in Seq(Nat) /\ Len(d4) = l + 4 /\ s \in Nat
      BY <1>4, <1>5, <2>3
    <3> QED
      BY <3>1, OneByte
  <2> HIDE DEF d5
  <2>6. /\ 1 \in 1..(l + 2) /\ 1 \in 1..(l + 3) /\ 1 \in 1..(l + 4)
        /\ l + 3 \in 1..(l + 3) /\ l + 3 \in 1..(l + 4) /\ l + 4 \in 1..(l + 4)
        /\ \A i \in 1..(l + 1) : /\ i + 1 \in 1..(l + 2) /\ i + 1 \in 1..(l + 3)
                                 /\ i + 1 \in 1..(l + 4)
    BY <1>4
  <2> QED
    BY <2>1, <2>2, <2>3, <2>4, <2>5, <2>6
<1> HIDE DEF d
<1>9. SubSeq(d, 2, l + 2) = z
  BY <1>4, <1>5, <1>7
<1> QED
  BY <1>4, <1>6, <1>7, <1>9 DEF d, z, t, o, s

LEMMA PrefixAfter ==
  ASSUME NEW f, NEW g, NEW h, Len(f) \in Nat, Len(g) \in Nat, Len(h) \in Nat,
         Prefix(f, g), Prefix(g, h)
  PROVE  Prefix(f, h)
<1>1. Len(f) <= Len(g) /\ Len(g) <= Len(h)
  BY DEF Prefix
<1>2. Len(f) <= Len(h)
  BY <1>1
<1>3. ASSUME NEW i \in 1..Len(f) PROVE h[i] = f[i]
  <2>1. i \in 1..Len(g)
    BY <1>1
  <2> QED
    BY <2>1 DEF Prefix
<1> QED
  BY <1>2, <1>3 DEF Prefix

\* The five pieces of a description.
Pieces(a, k) ==
  <<<<(Len(a[k].name) + 1) % 256>>, Zeroed(a, k), <<TypeByte(a, k)>>,
    <<OffsetOf(a, k)>>, <<a[k].size>>>>

LEMMA PiecesFlat ==
  ASSUME NEW a, Declarable(a), NEW k \in DOMAIN a, NEW ss \in Seq(Piece)
  PROVE  /\ Pieces(a, k) \in Seq(Piece) /\ ss \o Pieces(a, k) \in Seq(Piece)
         /\ FlattenSeq(ss \o Pieces(a, k)) = FlattenSeq(ss) \o Description(a, k)
<1>1. a[k] \in Attribute /\ a \in Seq(Attribute) /\ Len(a[k].name) < 255
  BY DEF Declarable
<1>2. a[k].name \in Seq(Nat) /\ a[k].size \in Nat /\ Len(a[k].name) \in Nat
  BY <1>1 DEF Attribute, Piece
<1>3. (Len(a[k].name) + 1) % 256 = Len(a[k].name) + 1
  <2> DEFINE l == Len(a[k].name)
  <2>0. l \in Nat /\ l < 255
    BY <1>1, <1>2
  <2> HIDE DEF l
  <2>1. l \in 0..254
    BY <2>0
  <2>2. (l + 1) % 256 = l + 1
    BY <2>1
  <2> QED
    BY <2>2 DEF l
<1>4. /\ <<Len(a[k].name) + 1>> \in Piece /\ Zeroed(a, k) \in Piece
      /\ <<TypeByte(a, k)>> \in Piece /\ <<OffsetOf(a, k)>> \in Piece
      /\ <<a[k].size>> \in Piece
  <2>1. OffsetOf(a, k) \in Nat
    BY <1>1, OffsetTyped
  <2>2. Zeroed(a, k) \in Piece
    BY <1>2 DEF Zeroed, Piece
  <2>3. \A n \in Nat : <<n>> \in Piece
    BY DEF Piece
  <2>4. TypeByte(a, k) \in Nat /\ Len(a[k].name) + 1 \in Nat
    BY <1>2 DEF TypeByte
  <2> QED
    BY <1>2, <2>1, <2>2, <2>3, <2>4
<1> DEFINE p == <<Len(a[k].name) + 1>>
           q == Zeroed(a, k)
           r == <<TypeByte(a, k)>>
           s == <<OffsetOf(a, k)>>
           t == <<a[k].size>>
<1>5. Pieces(a, k) = <<p, q, r, s, t>>
  BY <1>3 DEF Pieces
<1>6. Description(a, k) = p \o q \o r \o s \o t
  BY DEF Description
<1>7. p \in Piece /\ q \in Piece /\ r \in Piece /\ s \in Piece /\ t \in Piece
  BY <1>4
<1> HIDE DEF p, q, r, s, t
<1>8. FlattenSeq(ss \o <<p, q, r, s, t>>) = FlattenSeq(ss) \o (p \o q \o r \o s \o t)
  <2>1. Spread(ss, p, q, r, s, t)
    BY <1>7, FlatFive
  <2> QED
    BY <2>1 DEF Spread
<1>9. <<p, q, r, s, t>> \in Seq(Piece)
  BY <1>7
<1>10. ss \o <<p, q, r, s, t>> \in Seq(Piece)
  BY <1>9
<1> QED
  BY <1>5, <1>6, <1>8, <1>9, <1>10

LEMMA HeaderLaid ==
  ASSUME NEW a, Declarable(a)
  PROVE  \E B : Layout(a, B)
<1>1. PICK n \in Nat : n = Len(a) /\ DOMAIN a = 1..n /\ n <= 255
  BY DEF Declarable
<1> DEFINE P(k) == [j \in 1..k |-> Pieces(a, j)]
           S(k) == <<<<n>>>> \o FlattenSeq(P(k))
           B == [k \in 0..n |-> FlattenSeq(S(k))]
<1>2. \A k \in 1..n : Pieces(a, k) \in Seq(Piece)
  <2>1. <<>> \in Seq(Piece)
    OBVIOUS
  <2> QED
    BY <1>1, <2>1, PiecesFlat
<1>3. ASSUME NEW k \in 0..n
      PROVE  P(k) \in Seq(Seq(Piece))
  BY <1>2
<1>4. ASSUME NEW k \in 0..n
      PROVE  FlattenSeq(P(k)) \in Seq(Piece) /\ S(k) \in Seq(Piece)
  <2>1. FlattenSeq(P(k)) \in Seq(Piece)
    BY <1>3, Flattened
  <2>2. <<<<n>>>> \in Seq(Piece)
    BY <1>1 DEF Piece
  <2> QED
    BY <2>1, <2>2
<1>5. ASSUME NEW k \in 1..n
      PROVE  S(k) = S(k - 1) \o Pieces(a, k)
  <2> DEFINE f == FlattenSeq(P(k - 1))
             h == <<<<n>>>>
             c == Pieces(a, k)
  <2>1. k - 1 \in 0..n /\ P(k) = Append(P(k - 1), c)
    BY <1>1
  <2>2. FlattenSeq(P(k)) = f \o c
    BY <1>2, <1>3, <2>1, FlatMore
  <2>3. f \in Seq(Piece) /\ h \in Seq(Piece) /\ c \in Seq(Piece)
    BY <1>1, <1>2, <1>4, <2>1 DEF Piece
  <2> HIDE DEF f, h, c
  <2>4. h \o (f \o c) = (h \o f) \o c
    BY <2>3
  <2> QED
    BY <2>2, <2>4 DEF f, h, c
<1>6. HeaderPieces(a) = S(n)
  <2>1. HeaderPieces(a) = <<<<n % 256>>>> \o FlattenSeq([k \in 1..n |-> Pieces(a, k)])
    BY <1>1 DEF HeaderPieces, Pieces, Zeroed, TypeByte
  <2>2. n % 256 = n
    BY <1>1
  <2> QED
    BY <2>1, <2>2
<1>7. S(0) = <<<<n>>>>
  <2>1. P(0) = <<>>
    OBVIOUS
  <2>2. FlattenSeq(P(0)) = <<>>
    BY <2>1, FlatNone
  <2>3. <<<<n>>>> \o <<>> = <<<<n>>>>
    OBVIOUS
  <2> QED
    BY <2>2, <2>3
<1>8. FlattenSeq(S(0)) = <<n>>
  <2>1. <<>> \in Seq(Piece) /\ <<n>> \in Piece /\ Append(<<>>, <<n>>) = <<<<n>>>>
    BY DEF Piece
  <2>2. FlattenSeq(<<<<n>>>>) = <<>> \o <<n>>
    BY <2>1, FlatPiece, FlatNone
  <2>3. <<>> \o <<n>> = <<n>>
    OBVIOUS
  <2> QED
    BY <1>7, <2>2, <2>3
<1> HIDE DEF S
<1>9. B \in [0..n -> Seq(Nat)]
  <2>1. ASSUME NEW k \in 0..n PROVE FlattenSeq(S(k)) \in Seq(Nat)
    <3>1. S(k) \in Seq(Seq(Nat))
      BY <1>4 DEF Piece
    <3> QED
      BY <3>1, Flattened
  <2> QED
    BY <2>1
<1>10. ASSUME NEW k \in 1..n PROVE B[k] = B[k - 1] \o Description(a, k)
  <2>1. k \in 0..n /\ k - 1 \in 0..n /\ k \in DOMAIN a
    BY <1>1
  <2>2. FlattenSeq(S(k - 1) \o Pieces(a, k)) = FlattenSeq(S(k - 1)) \o Description(a, k)
    BY <1>4, <2>1, PiecesFlat
  <2> QED
    BY <1>5, <2>1, <2>2
<1>11. B[0] = <<n>> /\ B[n] = FlattenSeq(HeaderPieces(a))
  BY <1>1, <1>6, <1>8
<1> HIDE DEF B
<1>12. Layout(a, B)
  BY <1>1, <1>9, <1>10, <1>11 DEF Layout
<1> QED
  BY <1>12

\* Each description is in the file, behind those before it.
LiesIn(a, B, n, k) ==
  /\ B[k] \in Seq(Nat) /\ B[k - 1] \in Seq(Nat)
  /\ Len(B[k]) = Len(B[k - 1]) + Len(a[k].name) + 5
  /\ Prefix(B[k - 1], B[k]) /\ Prefix(B[k], B[n])
  /\ \A i \in 1..(Len(a[k].name) + 5) :
       B[n][Len(B[k - 1]) + i] = Description(a, k)[i]

LEMMA Placement ==
  ASSUME NEW a, Declarable(a), NEW B, Layout(a, B),
         NEW n, n = Len(a), NEW k \in 1..n
  PROVE  LiesIn(a, B, n, k)
<1>1. n \in Nat /\ DOMAIN a = 1..n
  BY DEF Declarable
<1>2. /\ \A j \in 0..n : B[j] \in Seq(Nat)
      /\ \A j \in 1..n : B[j] = B[j - 1] \o Description(a, j)
  BY DEF Layout
<1>3. ASSUME NEW j \in 1..n
      PROVE  /\ B[j - 1] \in Seq(Nat) /\ B[j] \in Seq(Nat)
             /\ Description(a, j) \in Seq(Nat)
             /\ Len(Description(a, j)) = Len(a[j].name) + 5
             /\ Len(B[j]) = Len(B[j - 1]) + Len(Description(a, j))
             /\ Prefix(B[j - 1], B[j])
             /\ \A i \in 1..Len(Description(a, j)) :
                  B[j][Len(B[j - 1]) + i] = Description(a, j)[i]
  <2>1. j - 1 \in 0..n /\ j \in 0..n
    BY <1>1
  <2>2. /\ Description(a, j) \in Seq(Nat)
        /\ Len(Description(a, j)) = Len(a[j].name) + 5
    <3>1. PICK l : l = Len(a[j].name)
      OBVIOUS
    <3>2. j \in DOMAIN a
      BY <1>1
    <3> QED
      BY <3>1, <3>2, DescriptionIs
  <2> DEFINE x == B[j - 1]
             d == Description(a, j)
  <2>3. x \in Seq(Nat) /\ d \in Seq(Nat) /\ B[j] = x \o d
    BY <1>2, <2>1, <2>2
  <2> HIDE DEF x, d
  <2>4. /\ Len(x \o d) = Len(x) + Len(d)
        /\ \A i \in 1..Len(x) : (x \o d)[i] = x[i]
        /\ \A i \in 1..Len(d) : (x \o d)[Len(x) + i] = d[i]
        /\ Len(x) <= Len(x \o d)
    BY <2>3
  <2>5. Prefix(x, x \o d)
    BY <2>4 DEF Prefix
  <2> QED
    BY <1>2, <2>1, <2>2, <2>3, <2>4, <2>5 DEF x, d
<1>l. \A j \in 1..n : Len(B[j]) \in Nat
  <2>1. \A x \in Seq(Nat) : Len(x) \in Nat
    OBVIOUS
  <2>2. \A j \in 1..n : B[j] \in Seq(Nat)
    BY <1>1, <1>2
  <2> QED
    BY <2>1, <2>2
<1>4. Prefix(B[k], B[n])
  <2> DEFINE T == {i \in 1..n : i >= k => Prefix(B[k], B[i])}
  <2>1. 1 \in T
    <3>1. CASE k = 1
      <4>1. Len(B[1]) \in Nat
        BY <1>1, <1>2
      <4> QED
        BY <1>1, <3>1, <4>1, PrefixSame
    <3>2. CASE k # 1
      BY <1>1, <3>2
    <3> QED
      BY <3>1, <3>2
  <2>2. ASSUME NEW i \in 1..(n - 1), i \in T
        PROVE  i + 1 \in T
    <3>1. i + 1 \in 1..n /\ (i + 1) - 1 = i /\ i \in 1..n
      BY <1>1
    <3>2. CASE i >= k
      <4>1. Prefix(B[k], B[i]) /\ Prefix(B[i], B[i + 1])
        BY <1>3, <2>2, <3>1, <3>2
      <4>2. Prefix(B[k], B[i + 1])
        <5>1. Len(B[k]) \in Nat /\ Len(B[i]) \in Nat /\ Len(B[i + 1]) \in Nat
          BY <1>l, <3>1
        <5>2. PICK f : f = B[k] /\ Len(f) \in Nat
          BY <5>1
        <5>3. PICK g : g = B[i] /\ Len(g) \in Nat
          BY <5>1
        <5>4. PICK h : h = B[i + 1] /\ Len(h) \in Nat
          BY <5>1
        <5>5. Prefix(f, g) /\ Prefix(g, h)
          BY <4>1, <5>2, <5>3, <5>4
        <5>6. Prefix(f, h)
          BY <5>2, <5>3, <5>4, <5>5, PrefixAfter
        <5> QED
          BY <5>2, <5>4, <5>6
      <4> QED
        BY <3>1, <4>2
    <3>3. CASE i + 1 = k
      <4>1. Len(B[k]) \in Nat
        BY <1>3
      <4> QED
        BY <3>1, <3>3, <4>1, PrefixSame
    <3>4. CASE i + 1 < k
      BY <1>1, <3>1, <3>4
    <3> QED
      BY <1>1, <3>2, <3>3, <3>4
  <2> HIDE DEF T
  <2>3. 1..n \subseteq T
    BY <1>1, <2>1, <2>2, SetInduction
  <2>4. n \in T
    BY <1>1, <2>3
  <2> QED
    BY <1>1, <2>4 DEF T
<1>5. ASSUME NEW i \in 1..(Len(a[k].name) + 5)
      PROVE  B[n][Len(B[k - 1]) + i] = Description(a, k)[i]
  <2>1. /\ Len(B[k]) = Len(B[k - 1]) + Len(Description(a, k))
        /\ Len(Description(a, k)) = Len(a[k].name) + 5
        /\ Len(B[k - 1]) \in Nat /\ Len(Description(a, k)) \in Nat
    BY <1>3
  <2>2. Len(B[k - 1]) + i \in 1..Len(B[k])
    <3> DEFINE x == Len(B[k - 1])
               d == Len(Description(a, k))
    <3>1. x \in Nat /\ d \in Nat /\ i \in 1..d /\ Len(B[k]) = x + d
      BY <2>1
    <3> HIDE DEF x, d
    <3>2. x + i \in 1..(x + d)
      BY <3>1
    <3> QED
      BY <3>1, <3>2 DEF x
  <2>3. B[n][Len(B[k - 1]) + i] = B[k][Len(B[k - 1]) + i]
    BY <1>4, <2>2 DEF Prefix
  <2> QED
    BY <1>3, <2>1, <2>3
<1>6. Len(B[k]) = Len(B[k - 1]) + Len(a[k].name) + 5
  <2> DEFINE x == Len(B[k - 1])
             l == Len(a[k].name)
  <2>1. Len(B[k]) = x + (l + 5) /\ x \in Nat
    <3>1. B[k - 1] \in Seq(Nat)
      BY <1>3
    <3>2. x \in Nat
      BY <3>1
    <3>3. Len(B[k]) = Len(B[k - 1]) + Len(Description(a, k))
          /\ Len(Description(a, k)) = Len(a[k].name) + 5
      BY <1>3
    <3> QED
      BY <3>2, <3>3
  <2>2. l \in Nat
    BY <1>1, DescriptionIs
  <2> HIDE DEF x, l
  <2>3. x + (l + 5) = x + l + 5
    BY <2>1, <2>2
  <2> QED
    BY <2>1, <2>3 DEF x, l
<1> QED
  BY <1>3, <1>4, <1>5, <1>6 DEF LiesIn

-----------------------------------------------------------------------------
(* getrelationheader reads of it what CREATE was given.                     *)
\* What is read of the header that was written for a.
ReadAs(a) ==
  [k \in 1..Len(a) |-> [name   |-> a[k].name,
                        type   |-> a[k].type,
                        offset |-> OffsetOf(a, k),
                        size   |-> a[k].size]]

LEMMA SameSegment ==
  ASSUME NEW f \in Seq(Nat), NEW d \in Seq(Nat), NEW x \in Nat, NEW l \in Nat,
         \A i \in 2..(l + 2) : f[x + i] = d[i],
         l + 2 <= Len(d), x + l + 2 <= Len(f)
  PROVE  SubSeq(f, x + 2, x + l + 2) = SubSeq(d, 2, l + 2)
<1> DEFINE g == SubSeq(f, x + 2, x + l + 2)
           h == SubSeq(d, 2, l + 2)
<1>1. /\ g \in Seq(Nat) /\ Len(g) = l + 1 /\ \A i \in 1..(l + 1) : g[i] = f[x + (i + 1)]
  OBVIOUS
<1>2. /\ h \in Seq(Nat) /\ Len(h) = l + 1 /\ \A i \in 1..(l + 1) : h[i] = d[i + 1]
  OBVIOUS
<1> HIDE DEF g, h
<1>3. \A i \in 1..(l + 1) : g[i] = h[i]
  <2>1. \A i \in 1..(l + 1) : i + 1 \in 2..(l + 2)
    OBVIOUS
  <2> QED
    BY <1>1, <1>2, <2>1
<1>4. g = h
  <2>1. /\ g = [i \in 1..Len(g) |-> g[i]] /\ h = [i \in 1..Len(h) |-> h[i]]
    BY <1>1, <1>2
  <2>2. Len(g) = l + 1 /\ Len(h) = l + 1
    BY <1>1, <1>2
  <2> DEFINE e == l + 1
  <2> HIDE DEF e
  <2>3. g = [i \in 1..e |-> g[i]] /\ h = [i \in 1..e |-> h[i]]
    BY <2>1, <2>2 DEF e
  <2>4. \A i \in 1..e : g[i] = h[i]
    BY <1>3 DEF e
  <2> QED
    BY <2>3, <2>4
<1> QED
  BY <1>4 DEF g, h

LEMMA HeaderBack ==
  ASSUME NEW a, Declarable(a), NEW f, f = FlattenSeq(HeaderPieces(a))
  PROVE  /\ f \in Seq(Nat) /\ HasHeader(f) /\ Header(f) = ReadAs(a)
         /\ TupleStart(f) = Len(f) + 1
<1>1. PICK n \in Nat : n = Len(a) /\ DOMAIN a = 1..n
  BY DEF Declarable
<1>2. PICK B : Layout(a, B)
  BY HeaderLaid
<1>3. /\ f = B[n] /\ B[0] = <<n>> /\ f \in Seq(Nat)
      /\ \A k \in 0..n : B[k] \in Seq(Nat) /\ Len(B[k]) \in Nat
  <2>1. /\ f = B[n] /\ B[0] = <<n>> /\ \A k \in 0..n : B[k] \in Seq(Nat)
    BY <1>1, <1>2 DEF Layout
  <2>2. \A x \in Seq(Nat) : Len(x) \in Nat
    OBVIOUS
  <2>3. n \in 0..n
    BY <1>1
  <2> QED
    BY <2>1, <2>2, <2>3
<1>4. ASSUME NEW k \in 1..n
      PROVE  /\ Len(a[k].name) \in Nat
             /\ Len(B[k]) = Len(B[k - 1]) + Len(a[k].name) + 5
             /\ Len(B[k - 1]) \in Nat /\ Len(B[k]) \in Nat /\ Len(B[k]) <= Len(f)
             /\ \A i \in 1..(Len(a[k].name) + 5) :
                  f[Len(B[k - 1]) + i] = Description(a, k)[i]
  <2>1. PICK l : l = Len(a[k].name)
    OBVIOUS
  <2>2. l \in Nat
    <3>1. k \in DOMAIN a
      BY <1>1
    <3> QED
      BY <2>1, <3>1, DescriptionIs
  <2>3. k - 1 \in 0..n /\ k \in 0..n
    BY <1>1
  <2>4. /\ Len(B[k]) = Len(B[k - 1]) + Len(a[k].name) + 5
        /\ Prefix(B[k], B[n])
        /\ \A i \in 1..(Len(a[k].name) + 5) :
             B[n][Len(B[k - 1]) + i] = Description(a, k)[i]
    <3>1. n = Len(a) /\ k \in 1..n
      BY <1>1
    <3>2. LiesIn(a, B, n, k)
      BY <1>2, <3>1, Placement
    <3> QED
      BY <3>2 DEF LiesIn
  <2>5. Len(B[k]) <= Len(f)
    BY <1>3, <2>4 DEF Prefix
  <2> QED
    BY <1>3, <2>1, <2>2, <2>3, <2>4, <2>5
<1>5. f # <<>> /\ f[1] = n
  <2>1. CASE n = 0
    <3>1. f = <<n>>
      BY <1>3, <2>1
    <3> QED
      BY <3>1
  <2>2. CASE n # 0
    <3>1. 1 \in 1..n /\ 1 - 1 = 0
      BY <1>1, <2>2
    <3>2. Prefix(B[0], B[1]) /\ Prefix(B[1], B[n])
      BY <1>1, <1>2, <3>1, Placement DEF LiesIn
    <3>3. Len(B[0]) = 1 /\ B[0][1] = n /\ Len(B[1]) \in Nat /\ Len(B[n]) \in Nat
      BY <1>1, <1>3, <3>1
    <3>4. 1 \in 1..Len(B[1]) /\ B[1][1] = n
      BY <3>2, <3>3 DEF Prefix
    <3>5. f[1] = n /\ Len(f) >= 1
      BY <1>3, <3>2, <3>3, <3>4 DEF Prefix
    <3> QED
      BY <1>3, <3>5
  <2> QED
    BY <2>1, <2>2
<1> DEFINE u == Starts(f)
<1>6. /\ u[1] = 2
      /\ \A k \in 2..(n + 1) :
           u[k] = IF u[k - 1] <= Len(f) THEN u[k - 1] + f[u[k - 1]] + 4 ELSE Len(f) + 2
  BY <1>3, <1>5, StartsStep
<1> HIDE DEF u
<1>7. ASSUME NEW k \in 1..n
      PROVE  /\ Len(B[k - 1]) + 1 <= Len(f)
             /\ f[Len(B[k - 1]) + 1] = Len(a[k].name) + 1
             /\ Len(B[k]) + 1 = (Len(B[k - 1]) + 1) + (Len(a[k].name) + 1) + 4
  <2> DEFINE x == Len(B[k - 1])
             l == Len(a[k].name)
             m == Len(f)
             y == Len(B[k])
  <2>1. x \in Nat /\ l \in Nat /\ m \in Nat /\ y = x + l + 5 /\ y <= m
    <3>1. x \in Nat /\ l \in Nat /\ y = x + l + 5 /\ y <= m
      BY <1>4
    <3>2. m \in Nat
      BY <1>3
    <3> QED
      BY <3>1, <3>2
  <2>2. \A i \in 1..(l + 5) : f[x + i] = Description(a, k)[i]
    BY <1>4
  <2>3. Description(a, k)[1] = l + 1
    <3>1. PICK j : j = Len(a[k].name)
      OBVIOUS
    <3>2. k \in DOMAIN a
      BY <1>1
    <3> QED
      BY <3>1, <3>2, DescriptionIs
  <2> HIDE DEF x, l, m, y
  <2>4. f[x + 1] = l + 1 /\ x + 1 <= m /\ y + 1 = (x + 1) + (l + 1) + 4
    BY <2>1, <2>2, <2>3
  <2> QED
    BY <2>4 DEF x, l, m, y
<1>8. ASSUME NEW k \in 1..(n + 1) PROVE u[k] = Len(B[k - 1]) + 1
  <2> DEFINE T == {j \in 1..(n + 1) : u[j] = Len(B[j - 1]) + 1}
  <2>1. 1 \in T
    <3>1. 1 \in 1..(n + 1) /\ 1 - 1 = 0
      BY <1>1
    <3>2. Len(B[0]) = 1
      BY <1>3
    <3>3. u[1] = Len(B[0]) + 1
      BY <1>6, <3>2
    <3>4. u[1] = Len(B[1 - 1]) + 1
      BY <3>1, <3>3
    <3> QED
      BY <3>1, <3>4
  <2>2. ASSUME NEW j \in 1..((n + 1) - 1), j \in T
        PROVE  j + 1 \in T
    <3>1. j \in 1..n /\ j + 1 \in 2..(n + 1) /\ (j + 1) - 1 = j /\ j + 1 \in 1..(n + 1)
      BY <1>1
    <3>2. u[j] = Len(B[j - 1]) + 1
      BY <2>2
    <3>3. u[j + 1] = u[j] + f[u[j]] + 4
      BY <1>6, <1>7, <3>1, <3>2
    <3>4. u[j + 1] = Len(B[j]) + 1
      BY <1>7, <3>1, <3>2, <3>3
    <3> QED
      BY <3>1, <3>4
  <2> HIDE DEF T
  <2>3. 1..(n + 1) \subseteq T
    <3>1. n + 1 \in Nat
      BY <1>1
    <3> QED
      BY <2>1, <2>2, <3>1, SetInduction
  <2> QED
    BY <2>3 DEF T
<1>9. HasHeader(f) /\ TupleStart(f) = Len(f) + 1
  <2>1. n + 1 \in 1..(n + 1) /\ (n + 1) - 1 = n
    BY <1>1
  <2>2. u[n + 1] = Len(f) + 1
    BY <1>3, <1>8, <2>1
  <2>3. Len(f) + 1 <= Len(f) + 1
    BY <1>3
  <2> QED
    BY <1>5, <2>2, <2>3 DEF HasHeader, TupleStart, u
<1>10. ASSUME NEW k \in 1..n
       PROVE  Described(f, u[k]) = [name   |-> a[k].name,
                                    type   |-> a[k].type,
                                    offset |-> OffsetOf(a, k),
                                    size   |-> a[k].size]
  <2> DEFINE x == Len(B[k - 1])
             d == Description(a, k)
  <2>0. PICK l : l = Len(a[k].name)
    OBVIOUS
  <2>1. u[k] = x + 1 /\ x \in Nat /\ l \in Nat
    <3>1. k \in 1..(n + 1)
      BY <1>1
    <3> QED
      BY <1>4, <1>8, <2>0, <3>1
  <2>2. \A i \in 1..(l + 5) : f[x + i] = d[i]
    BY <1>4, <2>0
  <2>3. /\ d \in Seq(Nat) /\ Len(d) = l + 5 /\ d[1] = l + 1
        /\ SubSeq(d, 2, l + 2) = Zeroed(a, k)
        /\ d[l + 3] = TypeByte(a, k) /\ d[l + 4] = OffsetOf(a, k)
        /\ d[l + 5] = a[k].size
    <3>1. k \in DOMAIN a
      BY <1>1
    <3> QED
      BY <2>0, <3>1, DescriptionIs
  <2>4. x + l + 5 <= Len(f)
    BY <1>4, <2>0
  <2> HIDE DEF x, d
  <2>5. f[u[k]] = l + 1
    <3>1. 1 \in 1..(l + 5)
      BY <2>1
    <3>2. f[x + 1] = d[1]
      BY <2>2, <3>1
    <3> QED
      BY <2>1, <2>3, <3>2
  <2>6. Described(f, u[k]) = EntryOf(f, x + 1, l + 1)
    BY <2>1, <2>5 DEF Described
  <2>7. /\ f[(x + 1) + (l + 1) + 1] = TypeByte(a, k)
        /\ f[(x + 1) + (l + 1) + 2] = OffsetOf(a, k)
        /\ f[(x + 1) + (l + 1) + 3] = a[k].size
    <3>1. /\ (x + 1) + (l + 1) + 1 = x + (l + 3)
          /\ (x + 1) + (l + 1) + 2 = x + (l + 4)
          /\ (x + 1) + (l + 1) + 3 = x + (l + 5)
          /\ l + 3 \in 1..(l + 5) /\ l + 4 \in 1..(l + 5) /\ l + 5 \in 1..(l + 5)
      BY <2>1
    <3> QED
      BY <2>2, <2>3, <3>1
  <2>8. SubSeq(f, (x + 1) + 1, (x + 1) + (l + 1)) = Zeroed(a, k)
    <3>1. SubSeq(f, x + 2, x + l + 2) = SubSeq(d, 2, l + 2)
      <4>1. \A i \in 2..(l + 2) : f[x + i] = d[i]
        BY <2>1, <2>2
      <4>2. l + 2 <= Len(d) /\ x + l + 2 <= Len(f)
        <5> DEFINE m == Len(f)
        <5>1. m \in Nat /\ x + l + 5 <= m
          BY <1>3, <2>4
        <5> HIDE DEF m
        <5>2. x + l + 2 <= m
          BY <2>1, <5>1
        <5>3. l + 2 <= Len(d)
          BY <2>1, <2>3
        <5> QED
          BY <5>2, <5>3 DEF m
      <4> QED
        BY <1>3, <2>1, <2>3, <4>1, <4>2, SameSegment
    <3>2. (x + 1) + 1 = x + 2 /\ (x + 1) + (l + 1) = x + l + 2
      BY <2>1
    <3> QED
      BY <2>3, <3>1, <3>2
  <2>9. BytesString(Zeroed(a, k)) = a[k].name
    BY <1>1, StringBack DEF Declarable, Zeroed
  <2>10. (IF TypeByte(a, k) = 0 THEN "INT" ELSE "STRING") = a[k].type
    <3>1. a[k] \in Attribute
      BY <1>1 DEF Declarable
    <3> QED
      BY <3>1 DEF Attribute, TypeByte
  <2> QED
    BY <2>6, <2>7, <2>8, <2>9, <2>10 DEF EntryOf, Entry
<1>11. Header(f) = ReadAs(a)
  <2>1. Header(f) = [k \in 1..n |-> Described(f, u[k])]
    BY <1>3, <1>5, <1>9, HeaderIs DEF u
  <2> QED
    BY <1>1, <1>10, <2>1 DEF ReadAs
<1> QED
  BY <1>3, <1>9, <1>11

-----------------------------------------------------------------------------
(* Sums, one term more at a time.                                           *)
LEMMA SumSteps ==
  ASSUME NEW s \in Seq(Int), Len(s) > 0
  PROVE  \E f \in [1..Len(s) -> Int] :
           /\ f[1] = s[1]
           /\ \A k \in 2..Len(s) : f[k] = f[k - 1] + s[k]
           /\ Sum(s) = f[Len(s)]
<1> DEFINE Solves(u) == u = [n \in DOMAIN s |-> IF n = 1 THEN s[1] ELSE u[n - 1] + s[n]]
           u == CHOOSE v : Solves(v)
<1>e. PICK e \in Nat : e = Len(s) /\ e > 0
  OBVIOUS
<1> DEFINE G == [k \in 1..e |-> [y \in Int |-> y + s[k]]]
<1>1. DOMAIN s = 1..e /\ s[1] \in Int /\ s # <<>> /\ \A k \in 1..e : s[k] \in Int
  BY <1>e
<1>2. G \in [1..e -> [Int -> Int]]
  BY <1>1
<1>3. \A k \in 1..e, y \in Int : G[k][y] = y + s[k]
  BY <1>1
<1> HIDE DEF G
<1>4. PICK f : Iterates(f, e, G, Int, s[1])
  BY <1>1, <1>2, Recursion
<1>5. f \in [1..e -> Int]
  BY <1>4 DEF Iterates
<1>6. ASSUME NEW k \in 1..e
      PROVE  f[k] = IF k = 1 THEN s[1] ELSE f[k - 1] + s[k]
  <2>1. k # 1 => f[k - 1] \in Int
    BY <1>1, <1>5
  <2>2. k # 1 => G[k][f[k - 1]] = f[k - 1] + s[k]
    BY <1>3, <2>1
  <2>3. f[k] = IF k = 1 THEN s[1] ELSE G[k][f[k - 1]]
    BY <1>4 DEF Iterates
  <2> QED
    BY <2>2, <2>3
<1>7. f = [n \in DOMAIN s |-> IF n = 1 THEN s[1] ELSE f[n - 1] + s[n]]
  BY <1>1, <1>5, <1>6
<1>8. Solves(u)
  BY <1>7
<1>9. Sum(s) = u[e]
  BY <1>e, <1>1 DEF Sum
<1> HIDE DEF u
<1>10. \A k \in 1..e : u[k] = IF k = 1 THEN s[1] ELSE u[k - 1] + s[k]
  BY <1>1, <1>8
<1>11. Alike(u, f, e)
  <2>1. u[1] = f[1]
    BY <1>e, <1>6, <1>10
  <2>2. ASSUME NEW k \in 2..e, u[k - 1] = f[k - 1] PROVE u[k] = f[k]
    BY <2>2, <1>6, <1>10
  <2> QED
    BY <2>1, <2>2 DEF Alike
<1>12. Same(u, f, e)
  BY <1>11, Agree
<1>13. Sum(s) = f[e]
  BY <1>e, <1>9, <1>12 DEF Same
<1>14. f[1] = s[1] /\ \A k \in 2..e : f[k] = f[k - 1] + s[k]
  <2>1. f[1] = s[1]
    BY <1>e, <1>6
  <2>2. ASSUME NEW k \in 2..e PROVE f[k] = f[k - 1] + s[k]
    BY <1>6
  <2> QED
    BY <2>1, <2>2
<1> QED
  BY <1>e, <1>5, <1>13, <1>14

LEMMA SumNone == Sum(<<>>) = 0
  BY DEF Sum

LEMMA SumMore ==
  ASSUME NEW s \in Seq(Int), NEW y \in Int
  PROVE  Sum(Append(s, y)) = Sum(s) + y
<1>e. PICK e \in Nat : e = Len(s)
  OBVIOUS
<1> DEFINE tt == Append(s, y)
<1>1. /\ tt \in Seq(Int) /\ Len(tt) = e + 1
      /\ tt[e + 1] = y /\ \A k \in 1..e : tt[k] = s[k]
  BY <1>e
<1> HIDE DEF tt
<1>2. PICK g \in [1..(e + 1) -> Int] :
        /\ g[1] = tt[1]
        /\ \A k \in 2..(e + 1) : g[k] = g[k - 1] + tt[k]
        /\ Sum(tt) = g[e + 1]
  <2>1. Len(tt) = e + 1 /\ Len(tt) > 0 /\ tt \in Seq(Int)
    BY <1>1
  <2>2. \E g \in [1..Len(tt) -> Int] :
          /\ g[1] = tt[1]
          /\ \A k \in 2..Len(tt) : g[k] = g[k - 1] + tt[k]
          /\ Sum(tt) = g[Len(tt)]
    BY <2>1, SumSteps
  <2> QED
    BY <2>1, <2>2
<1>3. CASE e = 0
  <2>1. Sum(s) = 0
    <3>0. Len(s) = 0
      BY <1>e, <1>3
    <3>1. s = <<>>
      BY <3>0
    <3> QED
      BY <3>1, SumNone
  <2>2. Sum(tt) = y
    BY <1>1, <1>2, <1>3
  <2> QED
    BY <2>1, <2>2 DEF tt
<1>4. CASE e # 0
  <2>1. PICK f \in [1..e -> Int] :
          /\ f[1] = s[1]
          /\ \A k \in 2..e : f[k] = f[k - 1] + s[k]
          /\ Sum(s) = f[e]
    <3>1. Len(s) > 0
      BY <1>e, <1>4
    <3>2. \E f \in [1..Len(s) -> Int] :
            /\ f[1] = s[1]
            /\ \A k \in 2..Len(s) : f[k] = f[k - 1] + s[k]
            /\ Sum(s) = f[Len(s)]
      BY <3>1, SumSteps
    <3> QED
      BY <1>e, <3>2
  <2>2. Alike(g, f, e)
    <3>1. g[1] = f[1]
      BY <1>1, <1>2, <1>4, <2>1
    <3>2. ASSUME NEW k \in 2..e, g[k - 1] = f[k - 1] PROVE g[k] = f[k]
      <4>1. k \in 2..(e + 1) /\ k \in 1..e
        BY <1>1
      <4> QED
        BY <1>1, <1>2, <2>1, <3>2, <4>1
    <3> QED
      BY <3>1, <3>2 DEF Alike
  <2>3. g[e] = f[e]
    <3>1. Same(g, f, e)
      BY <2>2, Agree
    <3>2. e \in 1..e
      BY <1>4
    <3> QED
      BY <3>1, <3>2 DEF Same
  <2>4. e + 1 \in 2..(e + 1) /\ (e + 1) - 1 = e
    BY <1>1, <1>4
  <2>5. g[e + 1] = g[e] + tt[e + 1]
    BY <1>2, <2>4
  <2> QED
    BY <1>1, <1>2, <2>1, <2>3, <2>5 DEF tt
<1> QED
  BY <1>3, <1>4

LEMMA SumNat ==
  ASSUME NEW s \in Seq(Nat)
  PROVE  Sum(s) \in Nat
<1>e. PICK e \in Nat : e = Len(s) /\ \A k \in 1..e : s[k] \in Nat
  OBVIOUS
<1>1. CASE e = 0
  <2>0. Len(s) = 0
    BY <1>e, <1>1
  <2>1. s = <<>>
    BY <2>0
  <2> QED
    BY <2>1, SumNone
<1>2. CASE e # 0
  <2>1. s \in Seq(Int) /\ Len(s) > 0
    <3>1. \A y \in Nat : y \in Int
      OBVIOUS
    <3>2. s \in Seq(Int)
      BY <3>1, Among
    <3> QED
      BY <1>e, <1>2, <3>2
  <2>2. PICK f \in [1..e -> Int] :
          /\ f[1] = s[1]
          /\ \A k \in 2..e : f[k] = f[k - 1] + s[k]
          /\ Sum(s) = f[e]
    <3>1. \E f \in [1..Len(s) -> Int] :
            /\ f[1] = s[1]
            /\ \A k \in 2..Len(s) : f[k] = f[k - 1] + s[k]
            /\ Sum(s) = f[Len(s)]
      BY <2>1, SumSteps
    <3> QED
      BY <1>e, <3>1
  <2> DEFINE T == {k \in 1..e : f[k] \in Nat}
  <2>3. 1 \in T
    BY <1>e, <1>2, <2>2
  <2>4. ASSUME NEW k \in 1..(e - 1), k \in T PROVE k + 1 \in T
    <3>1. k + 1 \in 2..e /\ k + 1 \in 1..e /\ (k + 1) - 1 = k
      BY <1>e
    <3>2. f[k + 1] = f[k] + s[k + 1]
      BY <2>2, <3>1
    <3> QED
      BY <1>e, <2>4, <3>1, <3>2
  <2> HIDE DEF T
  <2>5. 1..e \subseteq T
    BY <2>3, <2>4, SetInduction
  <2>6. e \in T
    BY <1>2, <2>5
  <2> QED
    BY <2>2, <2>6 DEF T
<1> QED
  BY <1>1, <1>2

-----------------------------------------------------------------------------
(* What CREATE has read is what its attributes declare.                     *)
Token ==
  [type : {"LPAREN", "RPAREN", "COMMA", "IDENT", "INT", "DBINT", "DBSTRING"},
   val : Piece \cup Nat]

\* The tokens s begin with x.
Begins(s, x) ==
  /\ x \in Seq(Token) /\ Len(x) <= Len(s)
  /\ \A i \in 1..Len(x) : s[i] = x[i]

LEMMA BeginsMore ==
  ASSUME NEW s, Len(s) \in Nat, NEW x, Begins(s, x), NEW y \in Token,
         NEW n, n = Len(x) + 1, n <= Len(s), s[n] = y
  PROVE  Begins(s, Append(x, y)) /\ Len(Append(x, y)) = n /\ Append(x, y) \in Seq(Token)
<1>1. x \in Seq(Token) /\ Len(x) \in Nat /\ \A i \in 1..Len(x) : s[i] = x[i]
  BY DEF Begins
<1>2. /\ Append(x, y) \in Seq(Token) /\ Len(Append(x, y)) = n
      /\ \A i \in 1..Len(x) : Append(x, y)[i] = x[i]
      /\ Append(x, y)[n] = y
  BY <1>1
<1>3. \A i \in 1..n : i = n \/ i \in 1..Len(x)
  BY <1>1
<1>4. \A i \in 1..n : s[i] = Append(x, y)[i]
  BY <1>1, <1>2, <1>3
<1> QED
  BY <1>2, <1>4 DEF Begins

LEMMA TokensTyped ==
  /\ \A x \in Piece : TokOf("IDENT", x) \in Token
  /\ \A x \in Nat : TokOf("INT", x) \in Token
  /\ \A y \in {"LPAREN", "RPAREN", "COMMA", "DBINT", "DBSTRING"} : Tok(y) \in Token
<1>1. <<>> \in Piece
  BY DEF Piece
<1> QED
  BY <1>1 DEF Token, Tok, TokOf

LEMMA DeclarationTyped ==
  ASSUME NEW a \in Seq(Attribute), NEW k \in DOMAIN a
  PROVE  Declaration(a, k) \in Seq(Token)
<1>1. a[k] \in Attribute
  OBVIOUS
<1>2. a[k].name \in Piece /\ a[k].size \in Nat
  BY <1>1 DEF Attribute
<1> DEFINE n == TokOf("IDENT", a[k].name)
           z == TokOf("INT", a[k].size)
<1>3. n \in Token /\ z \in Token
  BY <1>2, TokensTyped
<1>4. TypeText(a[k]) \in Seq(Token)
  <2>1. TypeText(a[k]) = IF a[k].type = "INT" THEN <<Tok("DBINT")>>
                         ELSE <<Tok("DBSTRING"), Tok("LPAREN"), z, Tok("RPAREN")>>
    BY DEF TypeText
  <2> HIDE DEF z
  <2>2. <<Tok("DBINT")>> \in Seq(Token)
        /\ <<Tok("DBSTRING"), Tok("LPAREN"), z, Tok("RPAREN")>> \in Seq(Token)
    BY <1>3, TokensTyped
  <2> QED
    BY <2>1, <2>2
<1>5. (IF k = 1 THEN <<>> ELSE <<Tok("COMMA")>>) \in Seq(Token) /\ <<n>> \in Seq(Token)
  <2>1. <<Tok("COMMA")>> \in Seq(Token)
    BY TokensTyped
  <2> HIDE DEF n
  <2> QED
    BY <1>3, <2>1
<1> DEFINE c == IF k = 1 THEN <<>> ELSE <<Tok("COMMA")>>
           t == TypeText(a[k])
<1>6. Declaration(a, k) = c \o <<n>> \o t
  BY DEF Declaration
<1>7. c \in Seq(Token) /\ <<n>> \in Seq(Token) /\ t \in Seq(Token)
  BY <1>4, <1>5
<1> HIDE DEF c, n, t
<1>8. c \o <<n>> \o t \in Seq(Token)
  BY <1>7
<1> QED
  BY <1>6, <1>8

LEMMA TextMore ==
  ASSUME NEW a \in Seq(Attribute), NEW x \in Attribute, NEW b, b = Append(a, x),
         NEW n, n = Len(b)
  PROVE  /\ b \in Seq(Attribute) /\ n = Len(a) + 1 /\ n \in DOMAIN b
         /\ Text(a) \in Seq(Token) /\ Text(b) = Text(a) \o Declaration(b, n)
<1> DEFINE P == [k \in 1..Len(a) |-> Declaration(a, k)]
           d == Declaration(b, n)
<1>1. /\ b \in Seq(Attribute) /\ n = Len(a) + 1 /\ n \in DOMAIN b
      /\ DOMAIN a = 1..Len(a) /\ DOMAIN b = 1..n /\ Len(a) \in Nat
      /\ \A k \in 1..Len(a) : b[k] = a[k]
  OBVIOUS
<1>2. \A k \in 1..Len(a) : Declaration(b, k) = Declaration(a, k)
  BY <1>1 DEF Declaration
<1>3. \A k \in 1..Len(a) : Declaration(a, k) \in Seq(Token)
  BY <1>1, DeclarationTyped
<1>4. d \in Seq(Token)
  BY <1>1, DeclarationTyped
<1>5. P \in Seq(Seq(Token))
  <2> DEFINE m == Len(a)
  <2>1. m \in Nat /\ \A k \in 1..m : Declaration(a, k) \in Seq(Token)
    BY <1>1, <1>3
  <2> HIDE DEF m
  <2>2. [k \in 1..m |-> Declaration(a, k)] \in Seq(Seq(Token))
    BY <2>1
  <2> QED
    BY <2>2 DEF m
<1>6. [k \in DOMAIN b |-> Declaration(b, k)] = Append(P, d)
  <2> DEFINE m == Len(a)
  <2>1. m \in Nat /\ n = m + 1 /\ DOMAIN b = 1..n
        /\ \A k \in 1..m : Declaration(b, k) = Declaration(a, k)
    BY <1>1, <1>2
  <2>2. P = [k \in 1..m |-> Declaration(a, k)]
    OBVIOUS
  <2> HIDE DEF m, P
  <2>3. Append(P, d) = [k \in 1..(m + 1) |-> IF k = m + 1 THEN d ELSE Declaration(a, k)]
    BY <2>1, <2>2
  <2>4. \A k \in 1..(m + 1) :
          Declaration(b, k) = IF k = m + 1 THEN d ELSE Declaration(a, k)
    BY <2>1
  <2> QED
    BY <2>1, <2>3, <2>4
<1>7. FlattenSeq(Append(P, d)) = FlattenSeq(P) \o d
  BY <1>4, <1>5, FlatMore
<1>8. FlattenSeq(P) \in Seq(Token)
  BY <1>5, Flattened
<1>9. <<Tok("LPAREN")>> \in Seq(Token)
  BY TokensTyped
<1> DEFINE l == <<Tok("LPAREN")>>
           f == FlattenSeq(P)
<1>10. Text(a) = l \o f /\ Text(b) = l \o (f \o d)
  BY <1>1, <1>6, <1>7 DEF Text
<1> HIDE DEF l, f, d, P
<1>11. l \in Seq(Token) /\ f \in Seq(Token) /\ d \in Seq(Token)
  BY <1>4, <1>8, <1>9 DEF l, f
<1>12. l \o f \in Seq(Token) /\ l \o (f \o d) = (l \o f) \o d
  BY <1>11
<1> QED
  BY <1>1, <1>10, <1>12 DEF d

\* The attributes a are what the tokens s declare.
NamesGiven(s, a) ==
  \A k \in DOMAIN a :
    /\ \E i \in DOMAIN s : s[i].type = "IDENT" /\ s[i].val = a[k].name
    /\ a[k].name \in Texts
    /\ a[k].type = "INT" => a[k].size = IntSize
    /\ \A j \in DOMAIN a : j # k => a[j].name # a[k].name

Declares(s, a) ==
  /\ a \in Seq(Attribute)
  /\ Begins(s, Text(a))
  /\ 3 * Len(a) <= Len(Text(a)) /\ Len(Text(a)) >= 1
  /\ NamesGiven(s, a)

\* Where CREATE is in its tokens.
Said ==
  LET n == Len(Text(attrs))
  IN /\ Declares(toks, attrs)
     /\ pc = "declare" => at = n
     /\ pc = "write" => at = IF n < Len(toks) THEN n + 1 ELSE n

LEMMA NothingSaid ==
  /\ Text(<<>>) = <<Tok("LPAREN")>> /\ <<Tok("LPAREN")>> \in Seq(Token)
  /\ Len(Text(<<>>)) = 1 /\ Text(<<>>)[1] = Tok("LPAREN")
<1>1. [k \in DOMAIN <<>> |-> Declaration(<<>>, k)] = <<>>
  OBVIOUS
<1>2. <<Tok("LPAREN")>> \in Seq(Token)
  BY TokensTyped
<1>3. <<Tok("LPAREN")>> \o <<>> = <<Tok("LPAREN")>>
  OBVIOUS
<1>4. Text(<<>>) = <<Tok("LPAREN")>>
  BY <1>1, <1>3, FlatNone DEF Text
<1> QED
  BY <1>2, <1>4

\* A token, if it is of the type, is the one meant.
LEMMA TokenIs ==
  ASSUME NEW s \in Statements, NEW i \in DOMAIN s.toks
  PROVE  /\ s.toks[i].type \notin {"INT", "IDENT", "STRING"} =>
              s.toks[i] = Tok(s.toks[i].type)
         /\ s.toks[i].type \in {"INT", "IDENT"} =>
              s.toks[i] = TokOf(s.toks[i].type, s.toks[i].val)
         /\ s.toks[i].type = "INT" => s.toks[i].val \in Nat
         /\ s.toks[i].type = "IDENT" => s.toks[i].val \in Texts
         /\ Len(s.toks) \in Nat /\ i \in 1..Len(s.toks)
BY ValuesAssumption

\* The first n tokens of s are x.
Reaches(s, x, n) == Begins(s, x) /\ Len(x) = n /\ x \in Seq(Token)

LEMMA ReachesMore ==
  ASSUME NEW s, Len(s) \in Nat, NEW x, NEW m \in Nat, Reaches(s, x, m),
         NEW n, n = m + 1, n <= Len(s), NEW y \in Token, s[n] = y
  PROVE  Reaches(s, Append(x, y), n)
<1>1. Begins(s, x) /\ n = Len(x) + 1
  BY DEF Reaches
<1> QED
  BY <1>1, BeginsMore DEF Reaches

\* The tokens of one more declaration.
Further(ty) ==
  LET name == toks[NameAt].val
  IN (IF attrs = <<>> THEN <<>> ELSE <<Tok("COMMA")>>)
       \o <<TokOf("IDENT", name)>>
       \o TypeText([name |-> name, type |-> ty.type, size |-> ty.size])

\* The tokens that it takes.
LEMMA FurtherRead ==
  ASSUME NEW s \in Statements, s = stmt, NEW n, NEW x, NEW ty,
         Begins(toks, x), n = Len(x), at = n,
         attrs # <<>> => Is(at + 1, "COMMA"), Is(NameAt, "IDENT"),
         ty \in Types(NameAt), NEW d, d = Further(ty)
  PROVE  /\ d \in Seq(Token) /\ Len(d) >= 2 /\ (attrs # <<>> => Len(d) >= 3)
         /\ Begins(toks, x \o d) /\ ty.end = n + Len(d)
<1>f. PICK first \in BOOLEAN : first <=> attrs = <<>>
  OBVIOUS
<1> DEFINE name == toks[NameAt].val
           m == NameAt
<1>1. /\ x \in Seq(Token) /\ n \in Nat /\ toks = s.toks /\ Len(toks) \in Nat
      /\ Reaches(toks, x, n)
  BY ValuesAssumption DEF Begins, toks, Reaches
<1>0. \A i \in DOMAIN toks : i \in 1..Len(toks) /\ i <= Len(toks)
  BY <1>1, TokenIs
<1>2. m = IF first THEN n + 1 ELSE n + 2
  BY <1>f DEF NameAt
<1>3. PICK c \in Seq(Token) : /\ c = IF first THEN <<>> ELSE <<Tok("COMMA")>>
                              /\ Reaches(toks, x \o c, m - 1)
                              /\ Len(c) = (IF first THEN 0 ELSE 1)
  <2>1. CASE first
    <3>1. x \o <<>> = x /\ Len(<<>>) = 0 /\ <<>> \in Seq(Token)
      BY <1>1
    <3>2. m - 1 = n
      BY <1>1, <1>2, <2>1
    <3>3. Reaches(toks, x \o <<>>, m - 1)
      BY <1>1, <3>1, <3>2
    <3> HIDE DEF m
    <3> WITNESS <<>> \in Seq(Token)
    <3> QED
      BY <2>1, <3>1, <3>3
  <2>2. CASE ~first
    <3>1. n + 1 \in DOMAIN toks /\ toks[n + 1].type = "COMMA"
      BY <1>f, <2>2 DEF Is
    <3>2. toks[n + 1] = Tok("COMMA") /\ n + 1 <= Len(toks)
      BY <1>0, <1>1, <3>1, TokenIs
    <3>3. Tok("COMMA") \in Token
      BY TokensTyped
    <3>4. Reaches(toks, Append(x, Tok("COMMA")), n + 1)
      BY <1>1, <3>2, <3>3, ReachesMore
    <3>5. Append(x, Tok("COMMA")) = x \o <<Tok("COMMA")>>
      BY <1>1
    <3>6. m - 1 = n + 1
      BY <1>1, <1>2, <2>2
    <3>7. <<Tok("COMMA")>> \in Seq(Token) /\ Len(<<Tok("COMMA")>>) = 1
      BY TokensTyped
    <3> QED
      BY <2>2, <3>4, <3>5, <3>6, <3>7
  <2> QED
    BY <2>1, <2>2
<1> HIDE DEF m
<1>4. m \in Nat /\ m >= 1 /\ m - 1 \in Nat /\ m = (m - 1) + 1
  BY <1>1, <1>2
<1>5. m \in DOMAIN toks /\ toks[m].type = "IDENT"
  BY DEF Is, m
<1>6. toks[m] = TokOf("IDENT", name) /\ name \in Texts /\ m <= Len(toks)
  BY <1>0, <1>1, <1>5, TokenIs DEF m
<1>i. TokOf("IDENT", name) \in Token
  BY <1>6, TextTyped, TokensTyped
<1>7. PICK y \in Seq(Token) : /\ y = Append(x \o c, TokOf("IDENT", name))
                              /\ Reaches(toks, y, m)
  <2>1. Reaches(toks, Append(x \o c, TokOf("IDENT", name)), m)
    BY <1>1, <1>3, <1>4, <1>6, <1>i, ReachesMore
  <2> QED
    BY <2>1 DEF Reaches
<1> DEFINE a == [name |-> name, type |-> ty.type, size |-> ty.size]
           t == TypeText(a)
<1>8. /\ t \in Seq(Token) /\ Begins(toks, y \o t) /\ ty.end = m + Len(t) /\ Len(t) >= 1
      /\ Len(t) \in Nat
  <2>0. y \in Seq(Token) /\ Reaches(toks, y, m)
    BY <1>7
  <2>1. CASE Is(m + 1, "DBINT") /\ ty = [type |-> "INT", size |-> IntSize, end |-> m + 1]
    <3>1. t = <<Tok("DBINT")>>
      BY <2>1 DEF TypeText
    <3>2. m + 1 \in DOMAIN toks /\ toks[m + 1].type = "DBINT"
      BY <2>1 DEF Is
    <3>3. toks[m + 1] = Tok("DBINT") /\ m + 1 <= Len(toks)
      BY <1>0, <1>1, <3>2, TokenIs
    <3>4. Tok("DBINT") \in Token
      BY TokensTyped
    <3>5. Reaches(toks, Append(y, Tok("DBINT")), m + 1)
      BY <1>1, <1>4, <2>0, <3>3, <3>4, ReachesMore
    <3>6. Append(y, Tok("DBINT")) = y \o <<Tok("DBINT")>>
      BY <2>0
    <3>7. <<Tok("DBINT")>> \in Seq(Token) /\ Len(<<Tok("DBINT")>>) = 1
      BY TokensTyped
    <3>8. ty.end = m + 1
      BY <2>1
    <3>9. Begins(toks, y \o t)
      BY <3>1, <3>5, <3>6 DEF Reaches
    <3> HIDE DEF t
    <3> QED
      BY <3>1, <3>7, <3>8, <3>9
  <2>2. CASE /\ Is(m + 1, "DBSTRING") /\ Is(m + 2, "LPAREN")
             /\ Is(m + 3, "INT") /\ Is(m + 4, "RPAREN")
             /\ ty = [type |-> "STRING", size |-> toks[m + 3].val, end |-> m + 4]
    <3> DEFINE z == toks[m + 3].val
               k == TokOf("INT", z)
    <3>1. t = <<Tok("DBSTRING"), Tok("LPAREN"), k, Tok("RPAREN")>>
      BY <2>2 DEF TypeText
    <3>2. toks[m + 1] = Tok("DBSTRING") /\ m + 1 <= Len(toks)
      <4>1. m + 1 \in DOMAIN toks /\ toks[m + 1].type = "DBSTRING"
        BY <2>2 DEF Is
      <4> QED
        BY <1>0, <1>1, <4>1, TokenIs
    <3>3. toks[m + 2] = Tok("LPAREN") /\ m + 2 <= Len(toks)
      <4>1. m + 2 \in DOMAIN toks /\ toks[m + 2].type = "LPAREN"
        BY <2>2 DEF Is
      <4> QED
        BY <1>0, <1>1, <4>1, TokenIs
    <3>4. toks[m + 3] = k /\ m + 3 <= Len(toks) /\ z \in Nat
      <4>1. m + 3 \in DOMAIN toks /\ toks[m + 3].type = "INT"
        BY <2>2 DEF Is
      <4> QED
        BY <1>0, <1>1, <4>1, TokenIs
    <3>5. toks[m + 4] = Tok("RPAREN") /\ m + 4 <= Len(toks)
      <4>1. m + 4 \in DOMAIN toks /\ toks[m + 4].type = "RPAREN"
        BY <2>2 DEF Is
      <4> QED
        BY <1>0, <1>1, <4>1, TokenIs
    <3>6. k \in Token
      BY <3>4, TokensTyped
    <3>7. Tok("DBSTRING") \in Token /\ Tok("LPAREN") \in Token /\ Tok("RPAREN") \in Token
      BY TokensTyped
    <3>8. /\ m + 1 \in Nat /\ m + 2 \in Nat /\ m + 3 \in Nat /\ m + 4 \in Nat
          /\ m + 2 = (m + 1) + 1 /\ m + 3 = (m + 2) + 1 /\ m + 4 = (m + 3) + 1
      BY <1>4
    <3> HIDE DEF k
    <3> DEFINE y1 == Append(y, Tok("DBSTRING"))
               y2 == Append(y1, Tok("LPAREN"))
               y3 == Append(y2, k)
               y4 == Append(y3, Tok("RPAREN"))
    <3>9. Reaches(toks, y1, m + 1)
      BY <1>1, <1>4, <2>0, <3>2, <3>7, ReachesMore
    <3> HIDE DEF y1
    <3>10. Reaches(toks, y2, m + 2)
      BY <1>1, <3>3, <3>7, <3>8, <3>9, ReachesMore
    <3> HIDE DEF y2
    <3>11. Reaches(toks, y3, m + 3)
      BY <1>1, <3>4, <3>6, <3>8, <3>10, ReachesMore
    <3> HIDE DEF y3
    <3>12. Reaches(toks, y4, m + 4)
      BY <1>1, <3>5, <3>7, <3>8, <3>11, ReachesMore
    <3> HIDE DEF y4
    <3>13. /\ <<Tok("DBSTRING"), Tok("LPAREN"), k, Tok("RPAREN")>> \in Seq(Token)
          /\ Len(<<Tok("DBSTRING"), Tok("LPAREN"), k, Tok("RPAREN")>>) = 4
      BY <3>6, <3>7
    <3>14. y4 = y \o <<Tok("DBSTRING"), Tok("LPAREN"), k, Tok("RPAREN")>>
      <4>1. Append(Append(Append(Append(y, Tok("DBSTRING")), Tok("LPAREN")), k), Tok("RPAREN"))
              = y \o <<Tok("DBSTRING"), Tok("LPAREN"), k, Tok("RPAREN")>>
        BY <2>0
      <4> QED
        BY <4>1 DEF y1, y2, y3, y4
    <3>15. ty.end = m + 4
      BY <2>2
    <3>16. Begins(toks, y \o t)
      BY <3>1, <3>12, <3>14 DEF Reaches
    <3> HIDE DEF t
    <3> QED
      BY <3>1, <3>13, <3>15, <3>16
  <2> QED
    BY <2>1, <2>2 DEF Types, m
<1> DEFINE i == TokOf("IDENT", name)
<1> HIDE DEF t, i
<1>9. /\ d = c \o <<i>> \o t /\ d \in Seq(Token) /\ x \o d = y \o t
      /\ Len(d) = Len(c) + 1 + Len(t)
  <2>1. i \in Token /\ x \in Seq(Token) /\ c \in Seq(Token) /\ t \in Seq(Token)
        /\ y = Append(x \o c, i)
    <3>1. i \in Token
      BY <1>6, TextTyped, TokensTyped DEF i
    <3> QED
      BY <1>1, <1>3, <1>7, <1>8, <3>1 DEF i
  <2>2. /\ Between(x, c, i, t) /\ c \o <<i>> \o t \in Seq(Token)
        /\ Len(c \o <<i>> \o t) = Len(c) + 1 + Len(t)
    BY <2>1, PutBetween
  <2>4. d = c \o <<i>> \o t
    BY <1>f, <1>3 DEF Further, i, t
  <2> QED
    BY <2>1, <2>2, <2>4 DEF Between
<1>10. ty.end = n + Len(d) /\ Len(d) >= 2 /\ (~first => Len(d) >= 3)
  <2>1. /\ Len(d) = Len(c) + 1 + Len(t) /\ Len(c) = (IF first THEN 0 ELSE 1)
        /\ ty.end = m + Len(t) /\ Len(t) >= 1 /\ Len(t) \in Nat
    BY <1>3, <1>8, <1>9
  <2>2. n \in Nat /\ m = IF first THEN n + 1 ELSE n + 2
    BY <1>1, <1>2
  <2> QED
    BY <2>1, <2>2
<1> QED
  BY <1>f, <1>8, <1>9, <1>10

\* One more declaration is what the tokens say, if the attributes so far are.
LEMMA DeclaresFurther ==
  ASSUME NEW s \in Statements, s = stmt, Declares(toks, attrs),
         at = Len(Text(attrs)), NEW ty \in Declared,
         NEW x, x = [name |-> toks[NameAt].val, type |-> ty.type, size |-> ty.size],
         x \in Attribute, NEW b, b = Append(attrs, x)
  PROVE  Declares(toks, b) /\ ty.end = Len(Text(b))
<1>1. PICK n : n = Len(Text(attrs))
  OBVIOUS
<1>2. /\ attrs \in Seq(Attribute) /\ Begins(toks, Text(attrs)) /\ NamesGiven(toks, attrs)
      /\ 3 * Len(attrs) <= n /\ n >= 1
  BY <1>1 DEF Declares
<1>3. PICK m : m = Len(b)
  OBVIOUS
<1>4. /\ b \in Seq(Attribute) /\ m = Len(attrs) + 1 /\ m \in DOMAIN b
      /\ Text(attrs) \in Seq(Token) /\ Text(b) = Text(attrs) \o Declaration(b, m)
  BY <1>2, <1>3, TextMore
<1>5. PICK first \in BOOLEAN : first <=> attrs = <<>>
  OBVIOUS
<1>6. /\ ty \in Types(NameAt) /\ Is(NameAt, "IDENT") /\ (~first => Is(at + 1, "COMMA"))
      /\ \A k \in DOMAIN attrs : attrs[k].name # toks[NameAt].val
  BY <1>5 DEF Declared
<1> DEFINE d == Further(ty)
<1>7. /\ d \in Seq(Token) /\ Len(d) >= 2 /\ (attrs # <<>> => Len(d) >= 3)
      /\ Begins(toks, Text(attrs) \o d) /\ ty.end = n + Len(d)
  <2>1. PICK y : y = Text(attrs)
    OBVIOUS
  <2>2. Begins(toks, y) /\ n = Len(y) /\ at = n
    BY <1>1, <1>2, <2>1
  <2> HIDE DEF d
  <2>3. d = Further(ty)
    BY DEF d
  <2>4. /\ d \in Seq(Token) /\ Len(d) >= 2 /\ (attrs # <<>> => Len(d) >= 3)
        /\ Begins(toks, y \o d) /\ ty.end = n + Len(d)
    <3>1. attrs # <<>> => Is(at + 1, "COMMA")
      BY <1>5, <1>6
    <3>2. Is(NameAt, "IDENT") /\ ty \in Types(NameAt)
      BY <1>6
    <3>3. s \in Statements /\ s = stmt
      OBVIOUS
    <3> QED
      BY <2>2, <2>3, <3>1, <3>2, <3>3, FurtherRead, ZenonT(60)
  <2> QED
    BY <2>1, <2>4
<1>8. /\ DOMAIN attrs = 1..Len(attrs) /\ DOMAIN b = 1..m /\ Len(attrs) \in Nat
      /\ \A k \in DOMAIN attrs : b[k] = attrs[k] /\ k \in DOMAIN b
      /\ b[m] = x /\ \A k \in DOMAIN b : k \in DOMAIN attrs \/ k = m
      /\ \A k \in DOMAIN attrs : k # m
      /\ (first <=> m = 1)
  <2>1. attrs \in Seq(Attribute) /\ m = Len(attrs) + 1
    BY <1>2, <1>4
  <2>2. first <=> m = 1
    BY <1>5, <2>1
  <2>3. /\ DOMAIN attrs = 1..Len(attrs) /\ DOMAIN b = 1..m /\ Len(attrs) \in Nat
        /\ \A k \in DOMAIN attrs : b[k] = attrs[k]
        /\ b[m] = x
    BY <2>1
  <2> QED
    BY <2>1, <2>2, <2>3
<1>9. d = Declaration(b, m)
  <2>1. d = (IF first THEN <<>> ELSE <<Tok("COMMA")>>)
              \o <<TokOf("IDENT", x.name)>> \o TypeText(x)
    BY <1>5 DEF Further
  <2>2. b[m] = x /\ (m = 1 <=> first)
    BY <1>8
  <2>3. Declaration(b, m) = (IF m = 1 THEN <<>> ELSE <<Tok("COMMA")>>)
          \o <<TokOf("IDENT", b[m].name)>> \o TypeText(b[m])
    BY DEF Declaration
  <2>4. Declaration(b, m) = (IF first THEN <<>> ELSE <<Tok("COMMA")>>)
          \o <<TokOf("IDENT", x.name)>> \o TypeText(x)
    BY <2>2, <2>3
  <2> QED
    BY <2>1, <2>4
<1> HIDE DEF d
<1>10. Text(b) = Text(attrs) \o d
  BY <1>4, <1>9
<1>11. Len(Text(b)) = n + Len(d) /\ n \in Nat /\ Len(d) \in Nat
  <2>1. PICK y \in Seq(Token) : y = Text(attrs)
    BY <1>4
  <2>2. Len(y \o d) = Len(y) + Len(d) /\ Len(y) \in Nat /\ Len(d) \in Nat
    BY <1>7, <2>1
  <2> QED
    BY <1>1, <1>10, <2>1, <2>2
<1>12. Begins(toks, Text(b)) /\ ty.end = Len(Text(b))
  BY <1>7, <1>10, <1>11
<1>13. 3 * m <= Len(Text(b)) /\ Len(Text(b)) >= 1
  <2>1. CASE first
    <3>1. m = 1 /\ n + Len(d) >= 3
      BY <1>2, <1>7, <1>8, <1>11, <2>1
    <3> QED
      BY <1>11, <3>1
  <2>2. CASE ~first
    <3>1. Len(d) >= 3 /\ 3 * Len(attrs) <= n /\ m = Len(attrs) + 1
      BY <1>2, <1>4, <1>5, <1>7, <2>2
    <3> HIDE DEF Text
    <3> QED
      BY <1>8, <1>11, <3>1
  <2> QED
    BY <2>1, <2>2
<1>14. NamesGiven(toks, b)
  <2>1. /\ NameAt \in DOMAIN toks /\ toks[NameAt].type = "IDENT" /\ toks[NameAt].val = x.name
        /\ x.name \in Texts
    <3>1. NameAt \in DOMAIN s.toks /\ s.toks[NameAt].type = "IDENT" /\ toks = s.toks
      BY <1>6 DEF Is, toks
    <3>2. s.toks[NameAt].val \in Texts
      BY <3>1, TokenIs
    <3> QED
      BY <3>1, <3>2
  <2>2. x.type = "INT" => x.size = IntSize
    <3>1. PICK i : i = NameAt
      OBVIOUS
    <3>2. ty \in Types(i)
      BY <1>6, <3>1
    <3>3. ty.type = "INT" => ty.size = IntSize
      BY <3>2 DEF Types
    <3> QED
      BY <3>3
  <2>3. \A k \in DOMAIN attrs : attrs[k].name # x.name
    BY <1>6
  <2> SUFFICES ASSUME NEW k \in DOMAIN b
               PROVE  /\ \E i \in DOMAIN toks : toks[i].type = "IDENT" /\ toks[i].val = b[k].name
                      /\ b[k].name \in Texts
                      /\ b[k].type = "INT" => b[k].size = IntSize
                      /\ \A j \in DOMAIN b : j # k => b[j].name # b[k].name
    BY DEF NamesGiven
  <2>4. CASE k = m
    <3>1. \A j \in DOMAIN b : j # k => b[j].name # b[k].name
      BY <1>8, <2>3, <2>4
    <3> QED
      BY <1>8, <2>1, <2>2, <2>4, <3>1
  <2>5. CASE k \in DOMAIN attrs
    <3>1. /\ \E i \in DOMAIN toks : toks[i].type = "IDENT" /\ toks[i].val = attrs[k].name
          /\ attrs[k].name \in Texts
          /\ attrs[k].type = "INT" => attrs[k].size = IntSize
          /\ \A j \in DOMAIN attrs : j # k => attrs[j].name # attrs[k].name
      BY <1>2, <2>5 DEF NamesGiven
    <3>2. \A j \in DOMAIN b : j # k => b[j].name # b[k].name
      BY <1>8, <2>3, <2>5, <3>1
    <3> QED
      BY <1>8, <2>5, <3>1, <3>2
  <2> QED
    BY <1>8, <2>4, <2>5
<1> QED
  BY <1>3, <1>4, <1>12, <1>13, <1>14 DEF Declares

-----------------------------------------------------------------------------
\* The header of the attributes that were declared is what declared them.
LEMMA DeclaredReadBack ==
  ASSUME NEW s \in Statements, NEW a, Declares(s.toks, a), Small(s.toks),
         NEW n, n = Len(Text(a)),
         s.toks[IF n < Len(s.toks) THEN n + 1 ELSE n].type = "RPAREN",
         NEW f, f = FlattenSeq(HeaderPieces(a))
  PROVE  ReadsBack(s.toks, f) /\ TupleStart(f) = Len(f) + 1
<1> DEFINE c == s.toks
<1>1. /\ Len(c) \in Nat /\ c = [i \in 1..Len(c) |-> c[i]]
      /\ \A i \in DOMAIN c : i \in 1..Len(c)
  BY ValuesAssumption
<1>2. /\ a \in Seq(Attribute) /\ Begins(c, Text(a)) /\ 3 * Len(a) <= n /\ n >= 1
      /\ NamesGiven(c, a)
  BY DEF Declares
<1>3. /\ Text(a) \in Seq(Token) /\ n <= Len(c) /\ n \in Nat
      /\ \A i \in 1..n : c[i] = Text(a)[i]
  BY <1>2 DEF Begins
<1>4. PICK e \in Nat : e = Len(a) /\ DOMAIN a = 1..e
  BY <1>2
<1>5. Declarable(a)
  <2>1. Len(c) <= 765
    BY DEF Small
  <2>2. e <= 255
    <3> HIDE DEF c
    <3> QED
      BY <1>1, <1>2, <1>3, <1>4, <2>1
  <2>3. \A k \in DOMAIN a : a[k].name \in Texts /\ Len(a[k].name) < 255
    BY <1>2 DEF Small, NamesGiven
  <2> QED
    BY <1>2, <1>4, <2>2, <2>3 DEF Declarable
<1>6. HasHeader(f) /\ Header(f) = ReadAs(a) /\ TupleStart(f) = Len(f) + 1
  BY <1>5, HeaderBack
<1> DEFINE h == ReadAs(a)
<1>7. /\ DOMAIN h = 1..e
      /\ \A k \in 1..e : /\ h[k].name = a[k].name /\ h[k].type = a[k].type
                         /\ h[k].size = a[k].size /\ h[k].offset = OffsetOf(a, k)
  BY <1>4 DEF ReadAs
<1> HIDE DEF h, c
<1>8. Text(h) = Text(a)
  <2>1. \A k \in 1..e : Declaration(h, k) = Declaration(a, k)
    BY <1>7 DEF Declaration, TypeText
  <2>2. [k \in DOMAIN h |-> Declaration(h, k)] = [k \in DOMAIN a |-> Declaration(a, k)]
    BY <1>4, <1>7, <2>1
  <2> QED
    BY <2>2 DEF Text
<1>9. SubSeq(c, 1, n) = Text(a)
  <2>1. SubSeq(c, 1, n) = [i \in 1..n |-> c[i]]
    BY <1>3
  <2>2. Text(a) = [i \in 1..n |-> Text(a)[i]]
    <3> HIDE DEF Text
    <3> QED
      BY <1>3
  <2> QED
    BY <1>3, <2>1, <2>2
<1>10. \A j, k \in DOMAIN h : j # k => h[j].name # h[k].name
  BY <1>2, <1>4, <1>7 DEF NamesGiven
<1>11. ASSUME NEW k \in DOMAIN h, NEW place, place = Sum([j \in 1..(k - 1) |-> h[j].size])
       PROVE  /\ h[k].type = "INT" => h[k].size = IntSize
              /\ place < 256 => h[k].offset = place
  <2>1. h[k].type = "INT" => h[k].size = IntSize
    BY <1>2, <1>4, <1>7 DEF NamesGiven
  <2>2. k \in 1..e /\ k - 1 \in Nat /\ \A j \in 1..(k - 1) : j \in 1..e
    BY <1>4, <1>7
  <2>3. \A j \in 1..e : a[j].size \in Nat
    <3>1. \A j \in 1..e : a[j] \in Attribute
      BY <1>2, <1>4
    <3> QED
      BY <3>1 DEF Attribute
  <2>4. [j \in 1..(k - 1) |-> h[j].size] = [j \in 1..(k - 1) |-> a[j].size]
    BY <1>7, <2>2
  <2>5. [j \in 1..(k - 1) |-> a[j].size] \in Seq(Nat)
    <3>1. PICK l \in Nat : l = k - 1
      BY <2>2
    <3>2. \A j \in 1..l : a[j].size \in Nat
      BY <2>2, <2>3, <3>1
    <3>3. [j \in 1..l |-> a[j].size] \in Seq(Nat)
      BY <3>2
    <3> QED
      BY <3>1, <3>3
  <2>6. place \in Nat
    <3>1. PICK z \in Seq(Nat) : z = [j \in 1..(k - 1) |-> a[j].size]
      BY <2>5
    <3>2. Sum(z) \in Nat
      BY SumNat
    <3>3. place = Sum(z)
      BY <1>11, <2>4, <3>1
    <3> QED
      BY <3>2, <3>3
  <2>7. h[k].offset = place % 256
    <3>1. h[k].offset = OffsetOf(a, k)
      BY <1>7, <2>2
    <3>2. OffsetOf(a, k) = Sum([j \in 1..(k - 1) |-> a[j].size]) % 256
      BY DEF OffsetOf
    <3> QED
      BY <1>11, <2>4, <3>1, <3>2
  <2> QED
    BY <2>1, <2>6, <2>7
<1>12. n = Len(Text(h)) /\ SubSeq(c, 1, n) = Text(h)
  BY <1>8, <1>9
<1>13. h = Header(f)
  BY <1>6 DEF h
<1>14. c[IF n < Len(c) THEN n + 1 ELSE n].type = "RPAREN"
  BY DEF c
<1>15. ReadsBack(c, f)
  <2>1. \A k \in DOMAIN h :
          LET place == Sum([j \in 1..(k - 1) |-> h[j].size])
          IN /\ h[k].type = "INT" => h[k].size = IntSize
             /\ place < 256 => h[k].offset = place
    BY <1>11
  <2> HIDE DEF h
  <2> QED
    BY <1>6, <1>10, <1>12, <1>13, <1>14, <2>1 DEF ReadsBack
<1> QED
  BY <1>6, <1>15 DEF c

\* What is read of a file is read of a longer one.
LEMMA StillReadBack ==
  ASSUME NEW f \in Seq(Nat), NEW g \in Seq(Nat), NEW b \in Seq(Nat), NEW s,
         Prefix(b, f), Prefix(b, g), HasHeader(b), ReadsBack(s, f)
  PROVE  ReadsBack(s, g)
<1>1. HasHeader(g) /\ Header(g) = Header(b) /\ Header(f) = Header(b)
  BY HeaderKept
<1>2. Header(g) = Header(f)
  BY <1>1
<1> QED
  BY <1>1, <1>2 DEF ReadsBack

-----------------------------------------------------------------------------
(* What is known of each table, and of its header, while a statement runs.  *)
Creating == pc # "idle" /\ stmt.command = "CREATE"

\* What is recorded of each table is a sequence of statements.  None is
\* recorded while a table is being created, and later only if it never was.
RecordsTyped ==
  /\ DOMAIN done = DOMAIN files
  /\ \A t \in DOMAIN done : done[t] \in Seq(Statements)

NoneYet == Creating => done[table] = <<>>

NeverMade ==
  \A t \in DOMAIN done : done[t] = <<>> => t \in spoiled \/ (Creating /\ t = table)

\* The file that INSERT found has a header, ...
HeaderFound ==
  pc # "idle" /\ stmt.command # "CREATE" => HasHeader(before[table])

\* ... and that of CREATE is empty until it is written, ...
EmptyFile ==
  /\ pc \in Creates => files[table] = <<>>
  /\ pc = "bracket" => attrs = <<>>

\* ... once the attributes are those that the tokens declare, ...
AllSaid == Creating /\ pc # "bracket" => Said

\* ... and then holds what was to be written but for what still is.
Rest(p, i) == SubSeq(p, i + 1, Len(p))

Written ==
  LET all == HeaderPieces(attrs)
  IN \E i \in 0..Len(all) : /\ files[table] = FlattenSeq(SubSeq(all, 1, i))
                            /\ pending = Rest(all, i)

AllWritten == Creating /\ pc = "write" /\ table \notin spoiled => Written

HInv ==
  /\ RecordsTyped /\ NoneYet /\ NeverMade /\ HeaderFound /\ EmptyFile
  /\ AllSaid /\ AllWritten /\ HeaderReadBack

-----------------------------------------------------------------------------
\* The file of a table is done with, or was never begun.
LEMMA HeaderDropped ==
  ASSUME HInv, Discard
  PROVE  HInv'
<1>1. /\ pc' = "idle" /\ files' = Without /\ done' = [t \in DOMAIN Without |-> done[t]]
      /\ spoiled' = spoiled \ {table} /\ DOMAIN done = DOMAIN files
  BY DEF Discard, Removed, Finish, HInv, RecordsTyped
<1>2. DOMAIN files' = DOMAIN files \ {table} /\ DOMAIN done' = DOMAIN files \ {table}
  BY <1>1 DEF Without
<1>3. \A t \in DOMAIN done' : /\ t \in DOMAIN done /\ t # table
                              /\ done'[t] = done[t] /\ files'[t] = files[t]
  BY <1>1, <1>2 DEF Without
<1>4. RecordsTyped'
  BY <1>2, <1>3 DEF HInv, RecordsTyped
<1>5. NeverMade'
  <2> SUFFICES ASSUME NEW t \in DOMAIN done', done'[t] = <<>> PROVE t \in spoiled'
    BY DEF NeverMade
  <2>1. t \in spoiled
    BY <1>3 DEF HInv, NeverMade
  <2> QED
    BY <1>1, <1>3, <2>1
<1>6. HeaderReadBack'
  BY <1>3 DEF HInv, HeaderReadBack
<1>7. ~Creating' /\ pc' \notin Creates
  BY <1>1 DEF Creating, Creates
<1> QED
  BY <1>1, <1>4, <1>5, <1>6, <1>7 DEF HInv, NoneYet, HeaderFound, EmptyFile,
     AllSaid, AllWritten, Creates

\* A statement gives up, or is refused, and leaves all as it is.
LEMMA HeaderLeft ==
  ASSUME HInv, ~Creating, pc' = "idle", UNCHANGED <<files, done, spoiled>>
  PROVE  HInv'
<1>1. RecordsTyped' /\ HeaderReadBack'
  BY DEF HInv, RecordsTyped, HeaderReadBack
<1>2. NeverMade'
  BY DEF HInv, NeverMade
<1>3. ~Creating' /\ pc' \notin Creates
  BY DEF Creating, Creates
<1> QED
  BY <1>1, <1>2, <1>3 DEF HInv, NoneYet, HeaderFound, EmptyFile, AllSaid, AllWritten

\* The header of a table is read as it was when an INSERT into it began.
LEMMA InsertReadsBack ==
  ASSUME KInv, KInv', HInv, pc # "idle", stmt.command # "CREATE", UNCHANGED before,
         NEW f, files' = [files EXCEPT ![table] = f]
  PROVE  /\ DOMAIN files' = DOMAIN files /\ table \in DOMAIN files
         /\ \A s : \A t \in DOMAIN files : ReadsBack(s, files[t]) => ReadsBack(s, files'[t])
<1>1. table \in DOMAIN files /\ table \in DOMAIN before
  BY DEF KInv, Placed
<1>2. /\ before[table] \in Seq(Nat) /\ files[table] \in Seq(Nat)
      /\ Prefix(before[table], files[table])
  BY <1>1 DEF KInv, StoreTyped, BytesKept, Piece
<1>3. files'[table] \in Seq(Nat) /\ Prefix(before[table], files'[table])
  BY <1>1 DEF KInv, StoreTyped, BytesKept, Piece
<1>4. HasHeader(before[table])
  BY DEF HInv, HeaderFound
<1>5. \A s : ReadsBack(s, files[table]) => ReadsBack(s, files'[table])
  BY <1>2, <1>3, <1>4, StillReadBack
<1>6. \A t \in DOMAIN files : t # table => files'[t] = files[t]
  OBVIOUS
<1> QED
  BY <1>1, <1>5, <1>6

\* A step of an INSERT.
LEMMA HeaderStays ==
  ASSUME KInv, KInv', HInv, pc # "idle", stmt.command # "CREATE",
         UNCHANGED <<before, done>>, spoiled \subseteq spoiled',
         pc' = "idle" \/ (pc' \notin Creates /\ UNCHANGED stmt),
         \/ UNCHANGED files
         \/ \E f : files' = [files EXCEPT ![table] = f]
  PROVE  HInv'
<1>1. /\ DOMAIN files' = DOMAIN files
      /\ \A s : \A t \in DOMAIN files : ReadsBack(s, files[t]) => ReadsBack(s, files'[t])
  BY InsertReadsBack
<1>2. RecordsTyped'
  BY <1>1 DEF HInv, RecordsTyped
<1>3. HeaderReadBack'
  <2>1. DOMAIN done = DOMAIN files
    BY DEF HInv, RecordsTyped
  <2> QED
    BY <1>1, <2>1 DEF HInv, HeaderReadBack
<1>4. ~Creating /\ ~Creating'
  BY DEF Creating
<1>5. NeverMade'
  BY <1>4 DEF HInv, NeverMade
<1>6. HeaderFound'
  BY DEF HInv, HeaderFound, table
<1>7. pc' \notin Creates
  BY DEF Creates
<1> QED
  BY <1>2, <1>3, <1>4, <1>5, <1>6, <1>7 DEF HInv, NoneYet, EmptyFile, AllSaid, AllWritten, Creates

-----------------------------------------------------------------------------
LEMMA CreateFileHeader ==
  ASSUME IInv, KInv, HInv, NEW s \in Statements, CreateFile(s)
  PROVE  HInv'
<1>1. /\ pc = "idle" /\ s.command = "CREATE" /\ UNCHANGED spoiled
  BY DEF CreateFile, Begin
<1>2. CASE BeginFails
  BY <1>1, <1>2, HeaderLeft DEF BeginFails, Creating
<1>3. CASE /\ s.table \notin DOMAIN files
           /\ files' = [t \in DOMAIN files \cup {s.table} |->
                          IF t = s.table THEN <<>> ELSE files[t]]
           /\ done' = [t \in DOMAIN files' |-> IF t = s.table THEN <<>> ELSE done[t]]
           /\ attrs' = <<>> /\ stmt' = s /\ pc' = "bracket"
  <2>1. /\ DOMAIN files' = DOMAIN files \cup {s.table} /\ DOMAIN done' = DOMAIN files'
        /\ DOMAIN done = DOMAIN files
        /\ done'[s.table] = <<>> /\ files'[s.table] = <<>>
        /\ \A t \in DOMAIN files : /\ t # s.table /\ t \in DOMAIN done
                                   /\ done'[t] = done[t] /\ files'[t] = files[t]
    BY <1>3 DEF HInv, RecordsTyped
  <2>2. RecordsTyped'
    <3>1. <<>> \in Seq(Statements)
      OBVIOUS
    <3>2. \A t \in DOMAIN done' : t = s.table \/ t \in DOMAIN files
      BY <2>1
    <3> QED
      BY <2>1, <3>1, <3>2 DEF HInv, RecordsTyped
  <2>3. table' = s.table /\ Creating'
    BY <1>1, <1>3 DEF table, Creating
  <2>4. NeverMade'
    <3> SUFFICES ASSUME NEW t \in DOMAIN done', done'[t] = <<>>, t # s.table
                 PROVE  t \in spoiled'
      BY <2>3 DEF NeverMade
    <3>1. t \in DOMAIN done /\ done[t] = <<>>
      BY <2>1
    <3> QED
      BY <1>1, <3>1 DEF HInv, NeverMade, Creating
  <2>5. HeaderReadBack'
    <3> SUFFICES ASSUME NEW t \in DOMAIN done', done'[t] # <<>>, Small(done'[t][1].toks)
                 PROVE  ReadsBack(done'[t][1].toks, files'[t])
      BY DEF HeaderReadBack
    <3>1. t \in DOMAIN done /\ done'[t] = done[t] /\ files'[t] = files[t]
      BY <2>1
    <3> QED
      BY <3>1 DEF HInv, HeaderReadBack
  <2>6. NoneYet' /\ HeaderFound' /\ EmptyFile' /\ AllSaid' /\ AllWritten'
    BY <1>1, <1>3, <2>1, <2>3 DEF NoneYet, HeaderFound, EmptyFile, AllSaid, AllWritten
  <2> QED
    BY <2>2, <2>4, <2>5, <2>6 DEF HInv
<1> QED
  BY <1>2, <1>3 DEF CreateFile

LEMMA InsertIntoHeader ==
  ASSUME IInv, KInv, HInv, NEW s \in Statements, InsertInto(s)
  PROVE  HInv'
<1>1. /\ pc = "idle" /\ s.command = "INSERT" /\ before' = files /\ UNCHANGED spoiled
      /\ ~Creating
  BY DEF InsertInto, Begin, Creating
<1>2. CASE BeginFails
  BY <1>1, <1>2, HeaderLeft DEF BeginFails
<1>3. CASE /\ s.table \in DOMAIN files /\ HasHeader(files[s.table])
           /\ files' = [files EXCEPT ![s.table] = Opened(s.table)]
           /\ stmt' = s /\ pc' = "columns?" /\ UNCHANGED done
  <2>1. files' = files
    BY <1>3 DEF IInv, FilesTyped, Opened
  <2>2. HeaderFound'
    BY <1>1, <1>3, <2>1 DEF HeaderFound, table
  <2>3. ~Creating' /\ pc' \notin Creates
    BY <1>1, <1>3 DEF Creating, Creates
  <2>4. RecordsTyped' /\ HeaderReadBack'
    BY <1>3, <2>1 DEF HInv, RecordsTyped, HeaderReadBack
  <2>5. NeverMade'
    BY <1>1, <1>3 DEF HInv, NeverMade
  <2> QED
    BY <2>2, <2>3, <2>4, <2>5 DEF HInv, NoneYet, EmptyFile, AllSaid, AllWritten, Creates
<1>4. CASE /\ s.table \in DOMAIN files /\ ~HasHeader(files[s.table])
           /\ UNCHANGED <<stmt, pc, done>>
           /\ \/ UNCHANGED files
              \/ \E junk \in {<<>>, <<0>>} :
                   files' = [files EXCEPT ![s.table] = @ \o junk]
  <2>1. CASE UNCHANGED files
    BY <1>1, <1>4, <2>1, HeaderLeft
  <2>2. CASE \E junk \in {<<>>, <<0>>} :
               files' = [files EXCEPT ![s.table] = @ \o junk]
    <3>1. /\ DOMAIN files' = DOMAIN files
          /\ \A t \in DOMAIN files : t # s.table => files'[t] = files[t]
      BY <2>2
    <3>2. HeaderReadBack'
      <4> SUFFICES ASSUME NEW t \in DOMAIN done, done[t] # <<>>, Small(done[t][1].toks)
                   PROVE  ReadsBack(done[t][1].toks, files'[t])
        BY <1>4 DEF HeaderReadBack
      <4>1. ReadsBack(done[t][1].toks, files[t]) /\ t \in DOMAIN files
        BY DEF HInv, HeaderReadBack, RecordsTyped
      <4>2. t # s.table
        BY <1>4, <4>1 DEF ReadsBack
      <4> QED
        BY <3>1, <4>1, <4>2
    <3>3. RecordsTyped' /\ NeverMade'
      BY <1>1, <1>4, <3>1 DEF HInv, RecordsTyped, NeverMade, Creating
    <3>4. ~Creating' /\ pc' \notin Creates /\ pc' = "idle"
      BY <1>1, <1>4 DEF Creating, Creates
    <3> QED
      BY <3>2, <3>3, <3>4 DEF HInv, NoneYet, HeaderFound, EmptyFile, AllSaid, AllWritten
  <2> QED
    BY <1>4, <2>1, <2>2
<1> QED
  BY <1>2, <1>3, <1>4 DEF InsertInto

\* A step that reads the tokens of a CREATE.
LEMMA CreateReads ==
  ASSUME HInv, Creating, UNCHANGED <<files, stmt, done, spoiled>>, pc' # "idle",
         EmptyFile', AllSaid', AllWritten'
  PROVE  HInv'
<1>1. table' = table /\ Creating'
  BY DEF table, Creating
<1>2. RecordsTyped' /\ HeaderReadBack'
  BY DEF HInv, RecordsTyped, HeaderReadBack
<1>3. NoneYet' /\ NeverMade' /\ HeaderFound'
  BY <1>1 DEF HInv, NoneYet, NeverMade, HeaderFound, Creating
<1> QED
  BY <1>2, <1>3 DEF HInv

LEMMA BracketHeader ==
  ASSUME IInv, KInv, HInv, Bracket
  PROVE  HInv'
<1>1. pc = "bracket" /\ Creating
  BY DEF Bracket, IInv, WhichCommand, Creates, Creating
<1>2. CASE Discard
  BY <1>2, HeaderDropped
<1>3. CASE ~Discard
  <2>1. /\ Is(1, "LPAREN") /\ pc' = "declare" /\ at' = 1
        /\ UNCHANGED <<files, stmt, attrs, done, spoiled>>
    BY <1>3 DEF Bracket, histVars
  <2>2. table' = table /\ toks' = toks /\ attrs = <<>> /\ files[table] = <<>>
    BY <1>1, <2>1 DEF table, toks, HInv, EmptyFile, Creates
  <2>3. stmt \in Statements
    BY <1>1 DEF KInv, StoreTyped
  <2>4. toks[1] = Tok("LPAREN") /\ 1 <= Len(toks) /\ Len(toks) \in Nat
    <3>1. 1 \in DOMAIN stmt.toks /\ stmt.toks[1].type = "LPAREN"
      BY <2>1 DEF Is, toks
    <3> QED
      BY <2>3, <3>1, TokenIs DEF toks
  <2>5. Begins(toks, Text(<<>>))
    <3>1. \A i \in 1..1 : i = 1
      OBVIOUS
    <3> QED
      BY <2>4, <3>1, NothingSaid DEF Begins
  <2>6. Declares(toks, <<>>)
    <3>1. NamesGiven(toks, <<>>)
      BY DEF NamesGiven
    <3>2. <<>> \in Seq(Attribute) /\ Len(<<>>) = 0
      OBVIOUS
    <3>3. 3 * 0 <= 1
      OBVIOUS
    <3> QED
      BY <2>5, <3>1, <3>2, <3>3, NothingSaid DEF Declares
  <2>7. Said'
    BY <2>1, <2>2, <2>6, NothingSaid DEF Said
  <2>8. EmptyFile' /\ AllSaid' /\ AllWritten'
    BY <2>1, <2>2, <2>7 DEF EmptyFile, AllSaid, AllWritten
  <2> QED
    BY <1>1, <2>1, <2>8, CreateReads
<1> QED
  BY <1>2, <1>3

LEMMA DeclareHeader ==
  ASSUME IInv, KInv, HInv, Declare
  PROVE  HInv'
<1>1. /\ pc = "declare" /\ Creating
      /\ UNCHANGED <<files, stmt, pc, done, spoiled>>
  BY DEF Declare, IInv, WhichCommand, Creates, Creating, histVars
<1>2. PICK ty \in Declared :
        /\ attrs' = Append(attrs, [name |-> toks[NameAt].val,
                                   type |-> ty.type, size |-> ty.size])
        /\ at' = ty.end
  BY DEF Declare
<1>3. table' = table /\ toks' = toks
  BY <1>1 DEF table, toks
<1>4. stmt \in Statements
  BY <1>1 DEF KInv, StoreTyped
<1>5. Declares(toks, attrs) /\ at = Len(Text(attrs))
  BY <1>1 DEF HInv, AllSaid, Said
<1>6. PICK x : x = [name |-> toks[NameAt].val, type |-> ty.type, size |-> ty.size]
  OBVIOUS
<1>7. x \in Attribute
  <2>1. attrs' \in Seq(Attribute) /\ attrs \in Seq(Attribute)
    <3>1. KInv'
      BY DeclareKeeps
    <3> QED
      BY <1>1, <3>1 DEF KInv, ReadingTyped, Creates
  <2>2. PICK b : b = Append(attrs, x) /\ b \in Seq(Attribute)
    BY <1>2, <1>6, <2>1
  <2>3. b[Len(b)] \in Attribute /\ b[Len(b)] = x
    BY <2>1, <2>2
  <2> QED
    BY <2>3
<1>8. Declares(toks, attrs') /\ ty.end = Len(Text(attrs'))
  <2>1. PICK b : b = Append(attrs, x)
    OBVIOUS
  <2>2. Declares(toks, b) /\ ty.end = Len(Text(b))
    BY <1>4, <1>5, <1>6, <1>7, <2>1, DeclaresFurther
  <2> QED
    BY <1>2, <1>6, <2>1, <2>2
<1>9. Said'
  BY <1>1, <1>2, <1>3, <1>8 DEF Said
<1>10. EmptyFile' /\ AllSaid' /\ AllWritten'
  BY <1>1, <1>3, <1>9 DEF HInv, EmptyFile, AllSaid, AllWritten
<1> QED
  BY <1>1, <1>10, CreateReads

LEMMA DeclarationsHeader ==
  ASSUME IInv, KInv, HInv, Declarations
  PROVE  HInv'
<1>1. /\ pc = "declare" /\ Creating /\ pc' = "write"
      /\ at' = (IF at < Len(toks) THEN at + 1 ELSE at)
      /\ pending' = HeaderPieces(attrs)
      /\ UNCHANGED <<files, stmt, attrs, done, spoiled>>
  BY DEF Declarations, More, IInv, WhichCommand, Creates, Creating, histVars
<1>2. table' = table /\ toks' = toks
  BY <1>1 DEF table, toks
<1>3. Declares(toks, attrs) /\ at = Len(Text(attrs))
  BY <1>1 DEF HInv, AllSaid, Said
<1>4. Said'
  BY <1>1, <1>2, <1>3 DEF Said
<1>5. Written'
  <2>1. PICK p : p = HeaderPieces(attrs)
    OBVIOUS
  <2>2. p \in Seq(Piece)
    <3>1. attrs \in Seq(Attribute)
      BY <1>3 DEF Declares
    <3> QED
      BY <2>1, <3>1, HeaderPiecesTyped
  <2>3. SubSeq(p, 1, 0) = <<>> /\ Rest(p, 0) = p /\ 0 \in 0..Len(p)
    BY <2>2 DEF Rest
  <2>4. files[table] = <<>>
    BY <1>1 DEF HInv, EmptyFile, Creates
  <2>5. files'[table'] = FlattenSeq(SubSeq(p, 1, 0)) /\ pending' = Rest(p, 0)
    BY <1>1, <1>2, <2>1, <2>3, <2>4, FlatNone
  <2>6. p = HeaderPieces(attrs')
    BY <1>1, <2>1
  <2> QED
    BY <2>3, <2>5, <2>6 DEF Written
<1>6. EmptyFile' /\ AllSaid' /\ AllWritten'
  BY <1>1, <1>4, <1>5 DEF EmptyFile, AllSaid, AllWritten, Creates
<1> QED
  BY <1>1, <1>6, CreateReads

\* What CREATE has written is a header, and nothing behind it.
LEMMA HeaderDone ==
  ASSUME KInv, HInv, pc = "write", pending = <<>>, Creating,
         table \notin spoiled, Is(at, "RPAREN"), Small(stmt.toks)
  PROVE  /\ ReadsBack(stmt.toks, files[table])
         /\ TupleStart(files[table]) = Len(files[table]) + 1
<1>1. stmt \in Statements
  BY DEF KInv, StoreTyped
<1>2. files[table] = FlattenSeq(HeaderPieces(attrs))
  <2>1. Said /\ Written
    BY DEF HInv, AllSaid, AllWritten
  <2>2. PICK p : p = HeaderPieces(attrs)
    OBVIOUS
  <2>3. p \in Seq(Piece)
    <3>1. attrs \in Seq(Attribute)
      BY <2>1 DEF Said, Declares
    <3> QED
      BY <2>2, <3>1, HeaderPiecesTyped
  <2>4. PICK i \in 0..Len(p) : /\ files[table] = FlattenSeq(SubSeq(p, 1, i))
                               /\ <<>> = Rest(p, i)
    BY <2>1, <2>2 DEF Written
  <2>5. i = Len(p)
    <3>1. Len(Rest(p, i)) = Len(p) - i
      BY <2>3 DEF Rest
    <3>2. Len(Rest(p, i)) = 0
      BY <2>4
    <3> QED
      BY <2>3, <3>1, <3>2
  <2>6. SubSeq(p, 1, Len(p)) = p
    BY <2>3
  <2> QED
    BY <2>2, <2>4, <2>5, <2>6
<1>3. PICK n : n = Len(Text(attrs))
  OBVIOUS
<1>4. /\ Declares(stmt.toks, attrs)
      /\ at = IF n < Len(stmt.toks) THEN n + 1 ELSE n
  <2>1. Said
    BY DEF HInv, AllSaid
  <2> QED
    BY <1>3, <2>1 DEF Said, toks
<1>5. stmt.toks[at].type = "RPAREN"
  BY DEF Is, toks
<1>6. stmt.toks[IF n < Len(stmt.toks) THEN n + 1 ELSE n].type = "RPAREN"
  BY <1>4, <1>5
<1> QED
  BY <1>1, <1>2, <1>3, <1>4, <1>6, DeclaredReadBack

LEMMA CreateEndsHeader ==
  ASSUME IInv, KInv, HInv, CreateEnds
  PROVE  HInv'
<1>1. pc = "write" /\ pending = <<>> /\ Creating
  BY DEF CreateEnds, Creating
<1>2. CASE Discard
  BY <1>2, HeaderDropped
<1>3. CASE ~Discard
  <2>1. /\ Is(at, "RPAREN") /\ pc' = "idle" /\ UNCHANGED <<files, spoiled>>
        /\ done' = IF table \in spoiled THEN done
                   ELSE [done EXCEPT ![table] = Append(@, stmt)]
    BY <1>3 DEF CreateEnds, Finish, Recorded
  <2>2. ~Creating' /\ pc' \notin Creates
    BY <2>1 DEF Creating, Creates
  <2>3. /\ table \in DOMAIN files /\ table \in DOMAIN done /\ done[table] = <<>>
        /\ stmt \in Statements
    BY <1>1 DEF KInv, Placed, StoreTyped, HInv, RecordsTyped, NoneYet, Creating
  <2>4. CASE table \in spoiled
    <3>1. RecordsTyped' /\ HeaderReadBack'
      BY <2>1, <2>4 DEF HInv, RecordsTyped, HeaderReadBack
    <3>2. NeverMade'
      BY <2>1, <2>4 DEF HInv, NeverMade
    <3> QED
      BY <2>1, <2>2, <3>1, <3>2 DEF HInv, NoneYet, HeaderFound, EmptyFile, AllSaid, AllWritten
  <2>5. CASE table \notin spoiled
    <3>1. /\ done' = [done EXCEPT ![table] = <<stmt>>] /\ DOMAIN done' = DOMAIN done
          /\ done'[table] = <<stmt>> /\ <<stmt>> # <<>> /\ <<stmt>>[1] = stmt
          /\ <<stmt>> \in Seq(Statements)
          /\ \A t \in DOMAIN done : t # table => done'[t] = done[t]
      BY <2>1, <2>3, <2>5
    <3>2. RecordsTyped'
      BY <2>1, <3>1 DEF HInv, RecordsTyped
    <3>3. NeverMade'
      BY <2>1, <3>1 DEF HInv, NeverMade
    <3>4. Small(stmt.toks) => ReadsBack(stmt.toks, files[table])
      BY <1>1, <2>1, <2>5, HeaderDone
    <3>5. HeaderReadBack'
      <4> SUFFICES ASSUME NEW t \in DOMAIN done', done'[t] # <<>>, Small(done'[t][1].toks)
                   PROVE  ReadsBack(done'[t][1].toks, files'[t])
        BY DEF HeaderReadBack
      <4>1. CASE t = table
        BY <2>1, <3>1, <3>4, <4>1
      <4>2. CASE t # table
        <5>1. t \in DOMAIN done /\ done'[t] = done[t]
          BY <3>1, <4>2
        <5> QED
          BY <2>1, <5>1 DEF HInv, HeaderReadBack
      <4> QED
        BY <4>1, <4>2
    <3> QED
      BY <2>1, <2>2, <3>2, <3>3, <3>5 DEF HInv, NoneYet, HeaderFound, EmptyFile, AllSaid, AllWritten
  <2> QED
    BY <2>4, <2>5
<1> QED
  BY <1>2, <1>3

LEMMA InsertEndsHeader ==
  ASSUME IInv, KInv, HInv, InsertEnds
  PROVE  HInv'
<1>1. /\ pc = "write" /\ stmt.command # "CREATE" /\ pc' = "idle" /\ UNCHANGED <<files, spoiled>>
      /\ done' = IF table \in spoiled THEN done
                 ELSE [done EXCEPT ![table] = Append(@, stmt)]
  BY DEF InsertEnds, Finish, Recorded
<1>2. ~Creating /\ ~Creating' /\ pc' \notin Creates
  BY <1>1 DEF Creating, Creates
<1>3. CASE table \in spoiled
  BY <1>1, <1>2, <1>3, HeaderLeft
<1>4. CASE table \notin spoiled
  <2>1. /\ table \in DOMAIN done /\ stmt \in Statements
        /\ done[table] \in Seq(Statements) /\ done[table] # <<>>
    BY <1>1, <1>2, <1>4 DEF KInv, Placed, StoreTyped, HInv, RecordsTyped, NeverMade
  <2>2. PICK r \in Seq(Statements) : r = Append(done[table], stmt) /\ r # <<>> /\ r[1] = done[table][1]
    <3>1. PICK q \in Seq(Statements) : q = done[table] /\ q # <<>>
      BY <2>1
    <3>2. PICK x \in Statements : x = stmt
      BY <2>1
    <3>3. /\ Append(q, x) \in Seq(Statements) /\ Append(q, x) # <<>>
          /\ Append(q, x)[1] = q[1]
      <4>1. Append(q, x) \in Seq(Statements) /\ Len(Append(q, x)) = Len(q) + 1
        OBVIOUS
      <4>2. Len(q) \in Nat /\ Len(q) >= 1
        BY <3>1
      <4>3. Append(q, x) # <<>>
        BY <4>1, <4>2
      <4>4. 1 \in 1..Len(q)
        BY <4>2
      <4>5. Append(q, x)[1] = q[1]
        BY <4>4
      <4> QED
        BY <4>1, <4>3, <4>5
    <3> QED
      BY <3>1, <3>2, <3>3
  <2>3. /\ DOMAIN done' = DOMAIN done /\ done'[table] = r
        /\ \A t \in DOMAIN done : t # table => done'[t] = done[t]
    BY <1>1, <1>4, <2>1, <2>2
  <2>4. RecordsTyped'
    BY <1>1, <2>2, <2>3 DEF HInv, RecordsTyped
  <2>5. NeverMade'
    BY <1>1, <1>2, <2>2, <2>3 DEF HInv, NeverMade
  <2>6. HeaderReadBack'
    <3> SUFFICES ASSUME NEW t \in DOMAIN done', done'[t] # <<>>, Small(done'[t][1].toks)
                 PROVE  ReadsBack(done'[t][1].toks, files'[t])
      BY DEF HeaderReadBack
    <3>1. t \in DOMAIN done /\ done[t] # <<>> /\ done'[t][1] = done[t][1]
      BY <2>1, <2>2, <2>3
    <3> QED
      BY <1>1, <3>1 DEF HInv, HeaderReadBack
  <2> QED
    BY <1>1, <1>2, <2>4, <2>5, <2>6 DEF HInv, NoneYet, HeaderFound, EmptyFile, AllSaid, AllWritten
<1> QED
  BY <1>3, <1>4

\* The next piece is in front of what is left, and behind what is there.
LEMMA NextPiece ==
  ASSUME NEW p \in Seq(Piece), NEW i \in 0..Len(p), Rest(p, i) # <<>>
  PROVE  /\ i + 1 \in 0..Len(p)
         /\ FlattenSeq(SubSeq(p, 1, i + 1)) = FlattenSeq(SubSeq(p, 1, i)) \o Head(Rest(p, i))
         /\ Tail(Rest(p, i)) = Rest(p, i + 1)
<1>1. i < Len(p) /\ Len(p) \in Nat
  <2>1. i = Len(p) => Rest(p, i) = <<>>
    BY DEF Rest
  <2> QED
    BY <2>1
<1>2. p[i + 1] \in Piece
  BY <1>1
<1>3. SubSeq(p, 1, i + 1) = Append(SubSeq(p, 1, i), p[i + 1])
  BY <1>1
<1>4. SubSeq(p, 1, i) \in Seq(Seq(Nat)) /\ p[i + 1] \in Seq(Nat)
  <2>1. SubSeq(p, 1, i) \in Seq(Piece)
    BY <1>1
  <2> QED
    BY <1>2, <2>1 DEF Piece
<1>5. FlattenSeq(SubSeq(p, 1, i + 1)) = FlattenSeq(SubSeq(p, 1, i)) \o p[i + 1]
  BY <1>3, <1>4, FlatMore
<1>6. Head(Rest(p, i)) = p[i + 1] /\ Tail(Rest(p, i)) = Rest(p, i + 1)
  BY <1>1 DEF Rest
<1>7. i + 1 \in 0..Len(p)
  BY <1>1
<1>8. FlattenSeq(SubSeq(p, 1, i + 1)) = FlattenSeq(SubSeq(p, 1, i)) \o Head(Rest(p, i))
  BY <1>5, <1>6
<1> QED
  BY <1>6, <1>7, <1>8

LEMMA WriteHeader ==
  ASSUME IInv, KInv, KInv', HInv, Write
  PROVE  HInv'
<1>1. /\ pc = "write" /\ pending # <<>> /\ pc' = "write"
      /\ files' = [files EXCEPT ![table] = files[table] \o Head(pending)]
      /\ pending' = Tail(pending)
      /\ UNCHANGED <<stmt, at, attrs, before, done, spoiled>>
  BY DEF Write, Added, readVars, histVars
<1>2. CASE stmt.command # "CREATE"
  <2>1. pc # "idle" /\ pc' \notin Creates /\ spoiled \subseteq spoiled'
    BY <1>1 DEF Creates
  <2>2. \E f : files' = [files EXCEPT ![table] = f]
    BY <1>1
  <2> QED
    BY <1>1, <1>2, <2>1, <2>2, HeaderStays
<1>3. CASE stmt.command = "CREATE"
  <2>1. Creating /\ Creating' /\ table' = table /\ toks' = toks
    BY <1>1, <1>3 DEF Creating, table, toks
  <2>2. /\ table \in DOMAIN files /\ done[table] = <<>> /\ DOMAIN files' = DOMAIN files
        /\ \A t \in DOMAIN files : t # table => files'[t] = files[t]
    BY <1>1, <2>1 DEF KInv, Placed, HInv, NoneYet, Creating
  <2>3. RecordsTyped' /\ NoneYet' /\ NeverMade' /\ HeaderFound'
    BY <1>1, <2>1, <2>2 DEF HInv, RecordsTyped, NoneYet, NeverMade, HeaderFound, Creating
  <2>4. EmptyFile'
    BY <1>1 DEF EmptyFile, Creates
  <2>5. AllSaid'
    <3>1. Said
      BY <1>1, <2>1 DEF HInv, AllSaid
    <3>2. Said'
      BY <1>1, <2>1, <3>1 DEF Said
    <3> QED
      BY <3>2 DEF AllSaid
  <2>6. ASSUME table \notin spoiled PROVE Written'
    <3>1. PICK p : p = HeaderPieces(attrs)
      OBVIOUS
    <3>2. p \in Seq(Piece)
      <4>1. attrs \in Seq(Attribute)
        BY <1>1, <2>1 DEF HInv, AllSaid, Said, Declares
      <4> QED
        BY <3>1, <4>1, HeaderPiecesTyped
    <3>3. PICK i \in 0..Len(p) : /\ files[table] = FlattenSeq(SubSeq(p, 1, i))
                                 /\ pending = Rest(p, i)
      BY <1>1, <2>1, <2>6, <3>1 DEF HInv, AllWritten, Written
    <3>4. /\ i + 1 \in 0..Len(p)
          /\ FlattenSeq(SubSeq(p, 1, i + 1)) = FlattenSeq(SubSeq(p, 1, i)) \o Head(Rest(p, i))
          /\ Tail(Rest(p, i)) = Rest(p, i + 1)
      BY <1>1, <3>2, <3>3, NextPiece
    <3>5. /\ files'[table] = FlattenSeq(SubSeq(p, 1, i + 1)) /\ pending' = Rest(p, i + 1)
      BY <1>1, <2>2, <3>3, <3>4
    <3>6. p = HeaderPieces(attrs')
      BY <1>1, <3>1
    <3> QED
      BY <2>1, <3>4, <3>5, <3>6 DEF Written
  <2>7. AllWritten'
    BY <1>1, <2>1, <2>6 DEF AllWritten
  <2>8. HeaderReadBack'
    BY <1>1, <2>2 DEF HInv, HeaderReadBack, RecordsTyped
  <2> QED
    BY <2>3, <2>4, <2>5, <2>7, <2>8 DEF HInv
<1> QED
  BY <1>2, <1>3

LEMMA FullHeader ==
  ASSUME IInv, KInv, KInv', HInv, Full
  PROVE  HInv'
<1>1. /\ pc = "write" /\ pc' = "write" /\ spoiled' = spoiled \cup {table}
      /\ \E f : files' = [files EXCEPT ![table] = f]
      /\ UNCHANGED <<stmt, at, attrs, before, done>>
  BY DEF Full, Added, readVars
<1>2. CASE stmt.command # "CREATE"
  <2>1. pc # "idle" /\ pc' \notin Creates /\ spoiled \subseteq spoiled'
    BY <1>1 DEF Creates
  <2> QED
    BY <1>1, <1>2, <2>1, HeaderStays
<1>3. CASE stmt.command = "CREATE"
  <2>1. Creating /\ Creating' /\ table' = table /\ toks' = toks
    BY <1>1, <1>3 DEF Creating, table, toks
  <2>2. /\ table \in DOMAIN files /\ done[table] = <<>> /\ DOMAIN files' = DOMAIN files
        /\ \A t \in DOMAIN files : t # table => files'[t] = files[t]
    BY <1>1, <2>1 DEF KInv, Placed, HInv, NoneYet, Creating
  <2>3. RecordsTyped' /\ NoneYet' /\ NeverMade' /\ HeaderFound'
    BY <1>1, <2>1, <2>2 DEF HInv, RecordsTyped, NoneYet, NeverMade, HeaderFound, Creating
  <2>4. EmptyFile' /\ AllWritten'
    BY <1>1, <2>1 DEF EmptyFile, AllWritten, Creates
  <2>5. AllSaid'
    <3>1. Said
      BY <1>1, <2>1 DEF HInv, AllSaid
    <3>2. Said'
      BY <1>1, <2>1, <3>1 DEF Said
    <3> QED
      BY <3>2 DEF AllSaid
  <2>6. HeaderReadBack'
    BY <1>1, <2>2 DEF HInv, HeaderReadBack, RecordsTyped
  <2> QED
    BY <2>3, <2>4, <2>5, <2>6 DEF HInv
<1> QED
  BY <1>2, <1>3

LEMMA CrashHeader ==
  ASSUME IInv, KInv, KInv', HInv, Crash
  PROVE  HInv'
<1>1. /\ pc # "idle" /\ pc' = "idle" /\ UNCHANGED <<before, done>>
      /\ \E f : files' = [files EXCEPT ![table] = f]
      /\ spoiled' \in {spoiled, spoiled \cup {table}}
      /\ stmt.command = "CREATE" => spoiled' = spoiled \cup {table}
  BY DEF Crash, Finish
<1>2. CASE stmt.command # "CREATE"
  BY <1>1, <1>2, HeaderStays
<1>3. CASE stmt.command = "CREATE"
  <2>1. Creating /\ ~Creating' /\ pc' \notin Creates
    BY <1>1, <1>3 DEF Creating, Creates
  <2>2. /\ table \in DOMAIN files /\ done[table] = <<>> /\ DOMAIN files' = DOMAIN files
        /\ \A t \in DOMAIN files : t # table => files'[t] = files[t]
    BY <1>1, <2>1 DEF KInv, Placed, HInv, NoneYet
  <2>3. RecordsTyped' /\ HeaderReadBack'
    BY <1>1, <2>2 DEF HInv, RecordsTyped, HeaderReadBack
  <2>4. NeverMade'
    BY <1>1, <1>3, <2>1 DEF HInv, NeverMade
  <2> QED
    BY <1>1, <2>1, <2>3, <2>4 DEF HInv, NoneYet, HeaderFound, EmptyFile, AllSaid, AllWritten
<1> QED
  BY <1>2, <1>3

\* INSERT reads its columns and values, or gives up.
LEMMA InsertReads ==
  ASSUME IInv, KInv, KInv', HInv,
         \/ Columns \/ Column \/ ColumnFails \/ ColumnsEnd
         \/ Values \/ Value \/ ValueFails \/ ValuesEnd
  PROVE  HInv'
<1>1. pc \in Inserts
  BY DEF Columns, Column, ColumnFails, ColumnsEnd, Values, Value, ValueFails,
     ValuesEnd, Inserts
<1>2. pc # "idle" /\ stmt.command # "CREATE"
  BY <1>1 DEF Inserts, IInv, WhichCommand
<1>3. CASE Fail
  BY <1>2, <1>3, HeaderLeft DEF Fail, Finish, Creating
<1>4. CASE ~Fail
  <2>1. /\ UNCHANGED <<files, stmt, before, done>> /\ spoiled \subseteq spoiled'
        /\ pc' \in Inserts \cup {"write"}
    BY <1>4 DEF Columns, Column, ColumnFails, ColumnsEnd, Values, Value, ValueFails,
       ValuesEnd, Inserts, histVars
  <2>2. pc' \notin Creates
    BY <2>1 DEF Creates, Inserts
  <2> QED
    BY <1>2, <2>1, <2>2, HeaderStays
<1> QED
  BY <1>3, <1>4

-----------------------------------------------------------------------------
LEMMA HeaderInitially == Init => HInv
  BY DEF Init, HInv, RecordsTyped, NoneYet, NeverMade, HeaderFound, EmptyFile,
     AllSaid, AllWritten, HeaderReadBack, Creating, Creates

LEMMA HeaderInductive == IInv /\ KInv /\ KInv' /\ HInv /\ [Next]_vars => HInv'
<1> SUFFICES ASSUME IInv, KInv, KInv', HInv, [Next]_vars PROVE HInv'
  OBVIOUS
<1>1. CASE \E s \in Statements : CreateFile(s) \/ InsertInto(s)
  BY <1>1, CreateFileHeader, InsertIntoHeader
<1>2. CASE Bracket \/ Declare \/ DeclareFails \/ Declarations \/ CreateEnds
  BY <1>2, BracketHeader, DeclareHeader, DeclarationsHeader, CreateEndsHeader,
     HeaderDropped DEF DeclareFails
<1>3. CASE \/ Columns \/ Column \/ ColumnFails \/ ColumnsEnd
           \/ Values \/ Value \/ ValueFails \/ ValuesEnd
  BY <1>3, InsertReads
<1>4. CASE InsertEnds \/ Write \/ Full \/ Crash
  BY <1>4, InsertEndsHeader, WriteHeader, FullHeader, CrashHeader
<1>5. CASE UNCHANGED vars
  <2>1. UNCHANGED <<files, stmt, at, attrs, pending, pc, before, done, spoiled>>
    BY <1>5 DEF vars, histVars, readVars
  <2>2. table' = table /\ toks' = toks /\ Creating' = Creating
    BY <2>1 DEF table, toks, Creating
  <2>3. RecordsTyped' /\ NoneYet' /\ NeverMade' /\ HeaderFound' /\ EmptyFile' /\ HeaderReadBack'
    BY <2>1, <2>2 DEF HInv, RecordsTyped, NoneYet, NeverMade, HeaderFound, EmptyFile,
       HeaderReadBack
  <2>4. AllSaid'
    BY <2>1, <2>2 DEF HInv, AllSaid, Said
  <2>5. AllWritten'
    BY <2>1, <2>2 DEF HInv, AllWritten, Written
  <2> QED
    BY <2>3, <2>4, <2>5 DEF HInv
<1> QED
  BY <1>1, <1>2, <1>3, <1>4, <1>5 DEF Next

(* The header of each table, whatever was done to it since, says what the   *)
(* CREATE that made it says: getrelationheader finds in it the names, types *)
(* and sizes of the declarations, in their order, no name twice, and where  *)
(* each attribute is among the bytes of a tuple, as long as that is in one  *)
(* byte.  A crash, a full storage, or a failure of another statement does   *)
(* not make it say anything else.                                           *)
THEOREM HeadersReadBack == Spec => []HeaderReadBack
<1>1. IInv /\ KInv /\ HInv /\ [Next]_vars => IInv' /\ KInv' /\ HInv'
  BY Inductive, KeptInductive, HeaderInductive
<1>2. Init => IInv /\ KInv /\ HInv
  BY Initially, KeptInitially, HeaderInitially
<1>3. HInv => HeaderReadBack
  BY DEF HInv
<1> QED
  BY <1>1, <1>2, <1>3, PTL DEF Spec

-----------------------------------------------------------------------------
(* The number of bytes that a row takes.                                    *)
Total(ss) == Len(FlattenSeq(ss))

LEMMA CountInduction ==
  ASSUME NEW e \in Nat, NEW S, 0 \in S,
         \A n \in 0..(e - 1) : n \in S => n + 1 \in S
  PROVE  0..e \subseteq S
<1>1. CASE e = 0
  BY <1>1
<1>2. CASE e # 0
  <2>1. 1 \in S
    <3>1. 0 \in 0..(e - 1) /\ 0 + 1 = 1
      BY <1>2
    <3> QED
      BY <3>1
  <2>2. \A n \in 1..(e - 1) : n \in S => n + 1 \in S
    OBVIOUS
  <2>3. 1..e \subseteq S
    BY <2>1, <2>2, SetInduction
  <2>4. \A n \in 0..e : n = 0 \/ n \in 1..e
    OBVIOUS
  <2> QED
    BY <2>3, <2>4
<1> QED
  BY <1>1, <1>2

LEMMA TotalNone == Total(<<>>) = 0
<1>1. Len(<<>>) = 0
  OBVIOUS
<1> QED
  BY <1>1, FlatNone DEF Total

LEMMA TotalMore ==
  ASSUME NEW ss \in Seq(Piece), NEW y \in Piece
  PROVE  /\ Total(ss) \in Nat /\ Len(y) \in Nat
         /\ Total(Append(ss, y)) = Total(ss) + Len(y)
<1>1. PICK f \in Piece : f = FlattenSeq(ss) /\ FlattenSeq(Append(ss, y)) = f \o y
  BY FlatPiece
<1>2. f \in Seq(Nat) /\ y \in Seq(Nat)
  BY DEF Piece
<1>3. Len(f \o y) = Len(f) + Len(y) /\ Len(f) \in Nat /\ Len(y) \in Nat
  BY <1>2
<1> QED
  BY <1>1, <1>3 DEF Total

LEMMA EmptyPiece == <<>> \in Piece /\ <<0>> \in Piece /\ Len(<<0>>) = 1
  BY DEF Piece

LEMMA TotalNat ==
  ASSUME NEW ss \in Seq(Piece)
  PROVE  Total(ss) \in Nat
  BY EmptyPiece, TotalMore

LEMMA TotalOne ==
  ASSUME NEW y \in Piece
  PROVE  <<y>> \in Seq(Piece) /\ Total(<<y>>) = Len(y)
<1>1. <<y>> \in Seq(Piece) /\ <<y>> = Append(<<>>, y) /\ <<>> \in Seq(Piece)
  OBVIOUS
<1>2. Total(Append(<<>>, y)) = Total(<<>>) + Len(y) /\ Len(y) \in Nat
  BY <1>1, TotalMore
<1> QED
  BY <1>1, <1>2, TotalNone

LEMMA TotalCat ==
  ASSUME NEW ss \in Seq(Piece), NEW qs \in Seq(Piece)
  PROVE  ss \o qs \in Seq(Piece) /\ Total(ss \o qs) = Total(ss) + Total(qs)
<1>1. PICK e \in Nat : e = Len(qs)
  OBVIOUS
<1> DEFINE T == {i \in 0..e : Total(ss \o SubSeq(qs, 1, i)) = Total(ss) + Total(SubSeq(qs, 1, i))}
<1>2. 0 \in T
  <2>1. SubSeq(qs, 1, 0) = <<>> /\ ss \o <<>> = ss
    OBVIOUS
  <2>2. Total(ss) = Total(ss) + 0
    BY TotalNat
  <2>3. Total(ss \o SubSeq(qs, 1, 0)) = Total(ss) + Total(SubSeq(qs, 1, 0))
    BY <2>1, <2>2, TotalNone
  <2> QED
    BY <1>1, <2>3
<1>3. ASSUME NEW i \in 0..(e - 1), i \in T
      PROVE  i + 1 \in T
  <2>1. PICK p \in Seq(Piece) : p = SubSeq(qs, 1, i)
    <3>1. i \in Nat /\ i <= Len(qs)
      BY <1>1
    <3>2. SubSeq(qs, 1, i) \in Seq(Piece)
      BY <3>1
    <3> QED
      BY <3>2
  <2>2. PICK y \in Piece : y = qs[i + 1]
    BY <1>1
  <2>3. SubSeq(qs, 1, i + 1) = Append(p, y)
    BY <1>1, <2>1, <2>2
  <2>4. ss \o Append(p, y) = Append(ss \o p, y) /\ ss \o p \in Seq(Piece)
    <3>1. PICK c \in Seq(Piece) : c = Cat(ss, p)
      BY CatTyped
    <3>2. PICK o \in Seq(Piece) : o = <<y>>
      BY CatOne
    <3>3. Append(p, y) = Cat(p, o) /\ Append(c, y) = Cat(c, o)
      BY <3>2, CatOne
    <3>4. Cat(c, o) = Cat(ss, Cat(p, o))
      BY <3>1, CatTwice
    <3> QED
      BY <3>1, <3>3, <3>4 DEF Cat
  <2>5. Total(ss \o p) = Total(ss) + Total(p)
    BY <1>3, <2>1
  <2>6. /\ Total(Append(ss \o p, y)) = Total(ss \o p) + Len(y) /\ Len(y) \in Nat
        /\ Total(Append(p, y)) = Total(p) + Len(y) /\ Total(p) \in Nat /\ Total(ss) \in Nat
    BY <2>4, TotalMore
  <2>7. Total(ss \o Append(p, y)) = Total(ss) + Total(Append(p, y))
    BY <2>4, <2>5, <2>6
  <2>8. i + 1 \in 0..e
    BY <1>1
  <2> QED
    BY <2>3, <2>7, <2>8
<1> HIDE DEF T
<1>4. 0..e \subseteq T
  BY <1>2, <1>3, CountInduction
<1>5. e \in T
  BY <1>4
<1>6. SubSeq(qs, 1, e) = qs
  BY <1>1
<1>7. ss \o qs \in Seq(Piece)
  OBVIOUS
<1> QED
  BY <1>5, <1>6, <1>7 DEF T

LEMMA TotalTail ==
  ASSUME NEW ss \in Seq(Piece), ss # <<>>
  PROVE  /\ Head(ss) \in Piece /\ Tail(ss) \in Seq(Piece)
         /\ Len(Head(ss)) \in Nat /\ Total(Tail(ss)) \in Nat
         /\ Total(ss) = Len(Head(ss)) + Total(Tail(ss))
<1>1. Head(ss) \in Piece /\ Tail(ss) \in Seq(Piece)
  OBVIOUS
<1>2. ss = <<Head(ss)>> \o Tail(ss)
  OBVIOUS
<1>3. PICK y \in Piece : y = Head(ss)
  BY <1>1
<1>4. PICK q \in Seq(Piece) : q = Tail(ss)
  BY <1>1
<1>5. Total(<<y>> \o q) = Total(<<y>>) + Total(q) /\ Total(<<y>>) = Len(y)
  BY TotalOne, TotalCat
<1>6. Len(y) \in Nat /\ Total(q) \in Nat
  BY TotalMore, TotalNat
<1> QED
  BY <1>1, <1>2, <1>3, <1>4, <1>5, <1>6

LEMMA TotalPadding ==
  ASSUME NEW n \in Nat
  PROVE  Padding(n) \in Seq(Piece) /\ Total(Padding(n)) = n
<1> DEFINE T == {i \in 0..n : Total(Padding(i)) = i}
<1>1. 0 \in T
  <2>1. Padding(0) = <<>>
    BY DEF Padding
  <2> QED
    BY <2>1, TotalNone
<1>2. ASSUME NEW i \in 0..(n - 1), i \in T PROVE i + 1 \in T
  <2>1. i \in Nat /\ i + 1 \in 0..n
    OBVIOUS
  <2>2. Padding(i + 1) = Append(Padding(i), <<0>>)
    BY <2>1 DEF Padding
  <2>3. Padding(i) \in Seq(Piece)
    BY <2>1, PaddingTyped
  <2>4. Total(Padding(i + 1)) = Total(Padding(i)) + 1
    BY <2>2, <2>3, EmptyPiece, TotalMore
  <2>5. Total(Padding(i)) = i
    BY <1>2
  <2> QED
    BY <2>1, <2>4, <2>5
<1> HIDE DEF T
<1>3. 0..n \subseteq T
  BY <1>1, <1>2, CountInduction
<1>4. n \in T
  BY <1>3
<1> QED
  BY <1>4, PaddingTyped DEF T

LEMMA ElementsIn ==
  ASSUME NEW S, NEW x \in Seq(S)
  PROVE  \A i \in 1..Len(x) : x[i] \in S
  OBVIOUS

\* Sequences of pieces, of these sizes.
LEMMA TotalSum ==
  ASSUME NEW ps \in Seq(Seq(Piece)), NEW s \in Seq(Nat), NEW e, e = Len(ps), e = Len(s),
         \A k \in 1..e : Total(ps[k]) = s[k]
  PROVE  FlattenSeq(ps) \in Seq(Piece) /\ Total(FlattenSeq(ps)) = Sum(s)
<1>0. FlattenSeq(ps) \in Seq(Piece)
  BY Flattened
<1>1. e \in Nat
  OBVIOUS
<1>2. CASE e = 0
  <2>1. ps = <<>>
    <3>1. Len(ps) = 0
      BY <1>2
    <3> QED
      BY <3>1
  <2>2. s = <<>>
    <3>1. Len(s) = 0
      BY <1>2
    <3> QED
      BY <3>1
  <2> QED
    BY <1>0, <2>1, <2>2, FlatNone, SumNone, TotalNone
<1>3. CASE e # 0
  <2>0. \A k \in 1..e : ps[k] \in Seq(Piece)
    BY ElementsIn
  <2>1. PICK f \in [1..e -> Seq(Piece)] :
          /\ f[1] = ps[1]
          /\ \A k \in 2..e : f[k] = f[k - 1] \o ps[k]
          /\ FlattenSeq(ps) = f[e]
    <3>1. Len(ps) > 0
      BY <1>1, <1>3
    <3>2. \E f \in [1..Len(ps) -> Seq(Piece)] :
            /\ f[1] = ps[1]
            /\ \A k \in 2..Len(ps) : f[k] = f[k - 1] \o ps[k]
            /\ FlattenSeq(ps) = f[Len(ps)]
      BY <3>1, FlatSteps
    <3> QED
      BY <3>2
  <2>2. s \in Seq(Int)
    <3>1. \A y \in Nat : y \in Int
      OBVIOUS
    <3> QED
      BY <3>1, Among
  <2>3. PICK g \in [1..e -> Int] :
          /\ g[1] = s[1]
          /\ \A k \in 2..e : g[k] = g[k - 1] + s[k]
          /\ Sum(s) = g[e]
    <3>1. Len(s) > 0
      BY <1>1, <1>3
    <3>2. \E g \in [1..Len(s) -> Int] :
            /\ g[1] = s[1]
            /\ \A k \in 2..Len(s) : g[k] = g[k - 1] + s[k]
            /\ Sum(s) = g[Len(s)]
      BY <2>2, <3>1, SumSteps
    <3> QED
      BY <3>2
  <2> DEFINE T == {k \in 1..e : Total(f[k]) = g[k]}
  <2>4. 1 \in T
    <3>1. 1 \in 1..e
      BY <1>1, <1>3
    <3> QED
      BY <2>1, <2>3, <3>1
  <2>5. ASSUME NEW k \in 1..(e - 1), k \in T PROVE k + 1 \in T
    <3>1. k + 1 \in 2..e /\ k + 1 \in 1..e /\ k \in 1..e /\ (k + 1) - 1 = k
      BY <1>1
    <3>2. f[k + 1] = f[k] \o ps[k + 1] /\ g[k + 1] = g[k] + s[k + 1]
      BY <2>1, <2>3, <3>1
    <3>3. PICK x \in Seq(Piece) : x = f[k]
      BY <2>1, <3>1
    <3>4. PICK y \in Seq(Piece) : y = ps[k + 1]
      BY <2>0, <3>1
    <3>5. Total(x \o y) = Total(x) + Total(y)
      BY TotalCat
    <3>6. Total(y) = s[k + 1] /\ Total(x) = g[k]
      BY <2>5, <3>1, <3>3, <3>4
    <3>7. Total(f[k + 1]) = g[k + 1]
      BY <3>2, <3>3, <3>4, <3>5, <3>6
    <3> QED
      BY <3>1, <3>7
  <2> HIDE DEF T
  <2>6. 1..e \subseteq T
    BY <1>1, <2>4, <2>5, SetInduction
  <2>7. e \in T
    BY <1>1, <1>3, <2>6
  <2> QED
    BY <1>0, <2>1, <2>3, <2>7 DEF T
<1> QED
  BY <1>2, <1>3

\* The elements e go into a tuple of the attributes a.
Fitting(a, e) ==
  \A k \in DOMAIN a :
    /\ e[k].type \in {"NULL", a[k].type}
    /\ e[k].type = "INT" => e[k].val \in Int /\ a[k].size = IntSize
    /\ e[k].type = "STRING" => e[k].val \in Piece /\ a[k].size >= Len(e[k].val) + 1

\* A value takes as many bytes as its attribute has, ...
LEMMA ValueTotal ==
  ASSUME NEW x, NEW size \in Nat,
         x.type \in {"NULL", "INT", "STRING"},
         x.type = "INT" => x.val \in Int /\ size = IntSize,
         x.type = "STRING" => x.val \in Piece /\ size >= Len(x.val) + 1,
         NEW p, p = CASE x.type = "NULL" -> Padding(size)
                      [] x.type = "INT"  -> <<IntBytes(x.val)>>
                      [] OTHER -> <<Append(x.val, 0)>> \o Padding(size - Len(x.val) - 1)
  PROVE  p \in Seq(Piece) /\ Total(p) = size
<1>1. CASE x.type = "NULL"
  <2>1. p = Padding(size)
    BY <1>1
  <2> QED
    BY <2>1, TotalPadding
<1>2. CASE x.type = "INT"
  <2>1. p = <<IntBytes(x.val)>>
    BY <1>2
  <2>2. IntBytes(x.val) \in Piece /\ Len(IntBytes(x.val)) = size
    BY <1>2, IntBytesTyped
  <2> QED
    BY <2>1, <2>2, TotalOne
<1>3. CASE x.type = "STRING"
  <2>1. PICK v \in Seq(Nat) : v = x.val
    BY <1>3 DEF Piece
  <2>2. PICK y \in Piece : y = Append(v, 0) /\ Len(y) = Len(v) + 1 /\ Len(v) \in Nat
    <3>1. Append(v, 0) \in Seq(Nat) /\ Len(Append(v, 0)) = Len(v) + 1 /\ Len(v) \in Nat
      OBVIOUS
    <3> QED
      BY <3>1 DEF Piece
  <2>3. PICK r \in Nat : r = size - Len(v) - 1
    BY <1>3, <2>1, <2>2
  <2>4. p = <<y>> \o Padding(r)
    BY <1>3, <2>1, <2>2, <2>3
  <2>5. Padding(r) \in Seq(Piece) /\ Total(Padding(r)) = r
    BY TotalPadding
  <2>6. PICK q \in Seq(Piece) : q = Padding(r)
    BY <2>5
  <2>7. <<y>> \in Seq(Piece) /\ Total(<<y>>) = Len(y)
    BY TotalOne
  <2>8. <<y>> \o q \in Seq(Piece) /\ Total(<<y>> \o q) = Total(<<y>>) + Total(q)
    BY <2>7, TotalCat
  <2>9. p \in Seq(Piece)
    BY <2>4, <2>6, <2>8
  <2>10. Total(p) = Len(y) + r
    BY <2>4, <2>5, <2>6, <2>7, <2>8
  <2>11. Len(y) + r = size
    <3>1. PICK l \in Nat : l = Len(v)
      BY <2>2
    <3>2. Len(y) = l + 1 /\ r = size - l - 1
      BY <2>2, <2>3, <3>1
    <3>3. (l + 1) + (size - l - 1) = size
      OBVIOUS
    <3> QED
      BY <3>2, <3>3
  <2> QED
    BY <2>9, <2>10, <2>11
<1> QED
  BY <1>1, <1>2, <1>3

\* ... and a row as many as next_scan goes on by.
LEMMA RowTotal ==
  ASSUME NEW a, IsTable(a), NEW e, DOMAIN e = DOMAIN a, Len(e) = Len(a), Fitting(a, e)
  PROVE  /\ RowPieces(a, e) \in Seq(Piece)
         /\ Total(RowPieces(a, e)) = RowBytes(a)
<1> DEFINE part(k) ==
             CASE e[k].type = "NULL" -> Padding(a[k].size)
               [] e[k].type = "INT"  -> <<IntBytes(e[k].val)>>
               [] OTHER -> <<Append(e[k].val, 0)>>
                             \o Padding(a[k].size - Len(e[k].val) - 1)
<1>1. PICK n \in Nat : n = Len(a) /\ DOMAIN a = 1..n
  BY DEF IsTable
<1>2. \A k \in 1..n : a[k].type \in {"INT", "STRING"} /\ a[k].size \in Nat
  BY <1>1 DEF IsTable
<1>3. ASSUME NEW k \in 1..n PROVE part(k) \in Seq(Piece) /\ Total(part(k)) = a[k].size
  <2>1. PICK x : x = e[k]
    OBVIOUS
  <2>2. PICK size \in Nat : size = a[k].size
    BY <1>2
  <2>3. /\ x.type \in {"NULL", "INT", "STRING"}
        /\ x.type = "INT" => x.val \in Int /\ size = IntSize
        /\ x.type = "STRING" => x.val \in Piece /\ size >= Len(x.val) + 1
    BY <1>1, <1>2, <2>1, <2>2 DEF Fitting
  <2>4. PICK p : p = CASE x.type = "NULL" -> Padding(size)
                       [] x.type = "INT"  -> <<IntBytes(x.val)>>
                       [] OTHER -> <<Append(x.val, 0)>> \o Padding(size - Len(x.val) - 1)
    OBVIOUS
  <2>5. p \in Seq(Piece) /\ Total(p) = size
    BY <2>3, <2>4, ValueTotal
  <2>6. p = part(k)
    BY <2>1, <2>2, <2>4
  <2> QED
    BY <2>2, <2>5, <2>6
<1>4. RowPieces(a, e) = <<NullBits(e)>> \o FlattenSeq([k \in DOMAIN a |-> part(k)])
  BY DEF RowPieces
<1> HIDE DEF part
<1>5. PICK ps : ps = [k \in 1..n |-> part(k)]
  OBVIOUS
<1>5a. ps \in Seq(Seq(Piece)) /\ Len(ps) = n /\ \A k \in 1..n : ps[k] = part(k)
  <2>1. ps \in Seq(Seq(Piece))
    BY <1>3, <1>5
  <2> QED
    BY <1>5, <2>1
<1>6. PICK s : s = [k \in 1..n |-> a[k].size]
  OBVIOUS
<1>6a. s \in Seq(Nat) /\ Len(s) = n /\ \A k \in 1..n : s[k] = a[k].size
  <2>1. s \in Seq(Nat)
    BY <1>2, <1>6
  <2> QED
    BY <1>6, <2>1
<1>7. FlattenSeq(ps) \in Seq(Piece) /\ Total(FlattenSeq(ps)) = Sum(s)
  <2>1. \A k \in 1..n : Total(ps[k]) = s[k]
    BY <1>3, <1>5a, <1>6a
  <2> QED
    BY <1>5a, <1>6a, <2>1, TotalSum
<1>8. PICK y \in Piece : y = NullBits(e) /\ Len(y) = BitBytes(n)
  BY <1>1, NullBitsTyped
<1>9. PICK q \in Seq(Piece) : q = FlattenSeq(ps)
  BY <1>7
<1>10. <<y>> \in Seq(Piece) /\ Total(<<y>>) = Len(y)
  BY TotalOne
<1>11. <<y>> \o q \in Seq(Piece) /\ Total(<<y>> \o q) = Total(<<y>>) + Total(q)
  BY <1>10, TotalCat
<1>12. RowPieces(a, e) = <<y>> \o q
  BY <1>1, <1>4, <1>5, <1>8, <1>9
<1>13. RowBytes(a) = BitBytes(n) + Sum(s)
  BY <1>1, <1>6 DEF RowBytes
<1> QED
  BY <1>7, <1>8, <1>9, <1>10, <1>11, <1>12, <1>13

-----------------------------------------------------------------------------
(* How many bytes each file has, while a statement runs.                    *)
Inserting == pc # "idle" /\ stmt.command # "CREATE"

\* The table t is whole, and its header was small enough to be written.
Known(t) == /\ t \in DOMAIN done \ spoiled
            /\ done[t] # <<>> /\ Small(done[t][1].toks)

ElemFits(y, x) ==
  /\ x.type \in {"NULL", y.type}
  /\ x.set /\ x.type = "STRING" => y.size >= Len(x.val) + 1

\* INSERT reads what it is given for the table that it found, ...
AttrsAre == pc \in Inserts => attrs = Header(files[table])

\* ... and takes a value only where it fits.
ElemsFit ==
  pc \in {"columns", "values?", "values"} =>
    \A k \in DOMAIN attrs : ElemFits(attrs[k], elems[k])

\* A table is full of its rows, ...
AtRest ==
  \A t \in DOMAIN done : Known(t) /\ ~(pc = "write" /\ t = table) =>
    Filled(files[t], Len(done[t]) - 1)

\* ... but for the one that is written to, which will be when all is written, ...
InWriting ==
  pc = "write" /\ Known(table) =>
    Len(files[table]) + Total(pending) =
      TupleStart(files[table]) - 1 + Len(done[table]) * RowBytes(Header(files[table]))

\* ... and was before.
BeforeFilled == Inserting /\ Known(table) => Filled(before[table], Len(done[table]) - 1)

NInv == AttrsAre /\ ElemsFit /\ AtRest /\ InWriting /\ BeforeFilled

\* The header of such a table is there, and says what was declared.
LEMMA KnownHeader ==
  ASSUME KInv, HInv, NEW t, Known(t)
  PROVE  /\ t \in DOMAIN files /\ files[t] \in Seq(Nat) /\ HasHeader(files[t])
         /\ Len(done[t]) \in Nat /\ Len(done[t]) >= 1
         /\ \A k \in DOMAIN Header(files[t]) :
              Header(files[t])[k].type = "INT" => Header(files[t])[k].size = IntSize
<1>1. t \in DOMAIN files /\ t \in DOMAIN done /\ done[t] \in Seq(Statements) /\ done[t] # <<>>
  BY DEF Known, HInv, RecordsTyped
<1>2. files[t] \in Seq(Nat)
  BY <1>1 DEF KInv, StoreTyped, Piece
<1>3. ReadsBack(done[t][1].toks, files[t])
  BY <1>1 DEF Known, HInv, HeaderReadBack
<1>4. Len(done[t]) \in Nat /\ Len(done[t]) >= 1
  <2>1. PICK q \in Seq(Statements) : q = done[t] /\ q # <<>>
    BY <1>1
  <2>2. Len(q) \in Nat /\ Len(q) >= 1
    BY <2>1
  <2> QED
    BY <2>1, <2>2
<1> QED
  BY <1>1, <1>2, <1>3, <1>4 DEF ReadsBack

\* What is known of the size of a row.
LEMMA RowBytesTyped ==
  ASSUME NEW f \in Seq(Nat), HasHeader(f)
  PROVE  RowBytes(Header(f)) \in Nat
<1> DEFINE h == Header(f)
<1>1. PICK n \in Nat : n = Len(h) /\ DOMAIN h = 1..n /\ \A k \in 1..n : h[k].size \in Nat
  BY HeaderIs
<1> HIDE DEF h
<1>2. PICK s : s = [k \in 1..n |-> h[k].size]
  OBVIOUS
<1>3. s \in Seq(Nat)
  BY <1>1, <1>2
<1>4. Sum(s) \in Nat
  BY <1>3, SumNat
<1>5. BitBytes(n) \in Nat
  BY DEF BitBytes
<1>6. RowBytes(h) = BitBytes(n) + Sum(s)
  BY <1>1, <1>2 DEF RowBytes
<1>7. RowBytes(h) \in Nat
  BY <1>4, <1>5, <1>6
<1> QED
  BY <1>7 DEF h

-----------------------------------------------------------------------------
\* A statement gives up, or is refused, and leaves all as it is.
LEMMA RowsLeft ==
  ASSUME NInv, pc # "write", pc' = "idle", UNCHANGED <<files, done, spoiled>>
  PROVE  NInv'
<1>1. AtRest'
  BY DEF NInv, AtRest, Known
<1> QED
  BY <1>1 DEF NInv, AttrsAre, ElemsFit, InWriting, BeforeFilled, Inserting, Inserts

\* The file of a table is removed.
LEMMA RowsDropped ==
  ASSUME HInv, NInv, Discard
  PROVE  NInv'
<1>1. /\ pc' = "idle" /\ files' = Without /\ done' = [t \in DOMAIN Without |-> done[t]]
      /\ spoiled' = spoiled \ {table} /\ DOMAIN done = DOMAIN files
  BY DEF Discard, Removed, Finish, HInv, RecordsTyped
<1>2. \A t \in DOMAIN done' : /\ t \in DOMAIN done /\ t # table
                              /\ done'[t] = done[t] /\ files'[t] = files[t]
  BY <1>1 DEF Without
<1>3. AtRest'
  <2> SUFFICES ASSUME NEW t \in DOMAIN done', Known(t)'
               PROVE  Filled(files'[t], Len(done'[t]) - 1)
    BY DEF AtRest
  <2>1. Known(t)
    BY <1>1, <1>2 DEF Known
  <2> QED
    BY <1>2, <2>1 DEF NInv, AtRest
<1> QED
  BY <1>1, <1>3 DEF NInv, AttrsAre, ElemsFit, InWriting, BeforeFilled, Inserting, Inserts

\* While its table is created, the others are as they were.
LEMMA RowsWhileCreating ==
  ASSUME HInv, NInv, Creating, Creating', UNCHANGED <<stmt, done>>,
         spoiled \subseteq spoiled', pc' \notin Inserts,
         \A t \in DOMAIN files : t # table => files'[t] = files[t]
  PROVE  NInv'
<1>1. table' = table /\ done[table] = <<>> /\ DOMAIN done = DOMAIN files
  BY DEF table, HInv, NoneYet, RecordsTyped
<1>2. ~Known(table)'
  BY <1>1 DEF Known
<1>3. AtRest'
  <2> SUFFICES ASSUME NEW t \in DOMAIN done', Known(t)'
               PROVE  Filled(files'[t], Len(done'[t]) - 1)
    BY DEF AtRest
  <2>1. Known(t) /\ t # table
    BY <1>1 DEF Known
  <2> QED
    BY <1>1, <2>1 DEF NInv, AtRest
<1> QED
  BY <1>2, <1>3 DEF NInv, AttrsAre, ElemsFit, InWriting, BeforeFilled, Inserting,
     Inserts, Creating

LEMMA CreateFileRows ==
  ASSUME IInv, KInv, HInv, NInv, NEW s \in Statements, CreateFile(s)
  PROVE  NInv'
<1>1. /\ pc = "idle" /\ s.command = "CREATE" /\ UNCHANGED spoiled
  BY DEF CreateFile, Begin
<1>2. CASE BeginFails
  BY <1>1, <1>2, RowsLeft DEF BeginFails
<1>3. CASE /\ s.table \notin DOMAIN files
           /\ files' = [t \in DOMAIN files \cup {s.table} |->
                          IF t = s.table THEN <<>> ELSE files[t]]
           /\ done' = [t \in DOMAIN files' |-> IF t = s.table THEN <<>> ELSE done[t]]
           /\ stmt' = s /\ pc' = "bracket"
  <2>1. AtRest'
    <3> SUFFICES ASSUME NEW t \in DOMAIN done', Known(t)'
                 PROVE  Filled(files'[t], Len(done'[t]) - 1)
      BY DEF AtRest
    <3>1. t # s.table
      BY <1>3 DEF Known
    <3>2. t \in DOMAIN done /\ done'[t] = done[t] /\ files'[t] = files[t]
      BY <1>3, <3>1 DEF HInv, RecordsTyped
    <3>3. Known(t)
      BY <1>1, <3>2 DEF Known
    <3> QED
      BY <1>1, <3>2, <3>3 DEF NInv, AtRest
  <2> QED
    BY <1>1, <1>3, <2>1 DEF NInv, AttrsAre, ElemsFit, InWriting, BeforeFilled, Inserting,
       Inserts
<1> QED
  BY <1>2, <1>3 DEF CreateFile

LEMMA InsertIntoRows ==
  ASSUME IInv, KInv, HInv, NInv, NEW s \in Statements, InsertInto(s)
  PROVE  NInv'
<1>1. /\ pc = "idle" /\ s.command = "INSERT" /\ before' = files /\ UNCHANGED spoiled
  BY DEF InsertInto, Begin
<1>2. CASE BeginFails
  BY <1>1, <1>2, RowsLeft DEF BeginFails
<1>3. CASE /\ s.table \in DOMAIN files /\ HasHeader(files[s.table])
           /\ attrs' = Header(files[s.table])
           /\ files' = [files EXCEPT ![s.table] = Opened(s.table)]
           /\ stmt' = s /\ pc' = "columns?" /\ UNCHANGED done
  <2>1. files' = files
    BY <1>3 DEF IInv, FilesTyped, Opened
  <2>2. table' = s.table
    BY <1>3 DEF table
  <2>3. AtRest'
    <3> SUFFICES ASSUME NEW t \in DOMAIN done', Known(t)'
                 PROVE  Filled(files'[t], Len(done'[t]) - 1)
      BY DEF AtRest
    <3>1. Known(t) /\ t \in DOMAIN done
      BY <1>1, <1>3 DEF Known
    <3> QED
      BY <1>1, <1>3, <2>1, <3>1 DEF NInv, AtRest
  <2>4. AttrsAre'
    BY <1>3, <2>1, <2>2 DEF AttrsAre
  <2>5. BeforeFilled'
    <3> SUFFICES ASSUME Known(s.table)'
                 PROVE  Filled(files[s.table], Len(done[s.table]) - 1)
      BY <1>1, <1>3, <2>2 DEF BeforeFilled
    <3>1. Known(s.table) /\ s.table \in DOMAIN done
      BY <1>1, <1>3 DEF Known
    <3> QED
      BY <1>1, <3>1 DEF NInv, AtRest
  <2> QED
    BY <1>3, <2>3, <2>4, <2>5 DEF NInv, ElemsFit, InWriting
<1>4. CASE /\ s.table \in DOMAIN files /\ ~HasHeader(files[s.table])
           /\ UNCHANGED <<stmt, pc, done>>
           /\ \/ UNCHANGED files
              \/ \E junk \in {<<>>, <<0>>} :
                   files' = [files EXCEPT ![s.table] = @ \o junk]
  <2>1. CASE UNCHANGED files
    BY <1>1, <1>4, <2>1, RowsLeft
  <2>2. CASE \E junk \in {<<>>, <<0>>} :
               files' = [files EXCEPT ![s.table] = @ \o junk]
    <3>1. AtRest'
      <4> SUFFICES ASSUME NEW t \in DOMAIN done', Known(t)'
                   PROVE  Filled(files'[t], Len(done'[t]) - 1)
        BY DEF AtRest
      <4>1. Known(t) /\ t \in DOMAIN done
        BY <1>1, <1>4 DEF Known
      <4>2. t \in DOMAIN files /\ HasHeader(files[t])
        BY <4>1, KnownHeader
      <4>3. t # s.table
        BY <1>4, <4>2
      <4>4. files'[t] = files[t]
        BY <2>2, <4>2, <4>3
      <4> QED
        BY <1>1, <1>4, <4>1, <4>4 DEF NInv, AtRest
    <3> QED
      BY <1>1, <1>4, <3>1 DEF NInv, AttrsAre, ElemsFit, InWriting, BeforeFilled,
         Inserting, Inserts
  <2> QED
    BY <1>4, <2>1, <2>2
<1> QED
  BY <1>2, <1>3, <1>4 DEF InsertInto

LEMMA CreateReadsRows ==
  ASSUME IInv, HInv, NInv, Bracket \/ Declare \/ DeclareFails \/ Declarations
  PROVE  NInv'
<1>1. pc \in Creates
  BY DEF Bracket, Declare, DeclareFails, Declarations, Creates
<1>2. Creating
  BY <1>1 DEF IInv, WhichCommand, Creates, Creating
<1>3. CASE Discard
  BY <1>3, RowsDropped
<1>4. CASE ~Discard
  <2>1. /\ UNCHANGED <<files, stmt, done, spoiled>> /\ pc' \in Creates \cup {"write"}
    BY <1>4 DEF Bracket, Declare, DeclareFails, Declarations, Creates, histVars
  <2>2. Creating' /\ pc' \notin Inserts
    BY <1>2, <2>1 DEF Creating, Creates, Inserts
  <2> QED
    BY <1>2, <2>1, <2>2, RowsWhileCreating
<1> QED
  BY <1>3, <1>4

LEMMA CreateEndsRows ==
  ASSUME IInv, KInv, HInv, NInv, CreateEnds
  PROVE  NInv'
<1>1. pc = "write" /\ pending = <<>> /\ Creating
  BY DEF CreateEnds, Creating
<1>2. CASE Discard
  BY <1>2, RowsDropped
<1>3. CASE ~Discard
  <2>1. /\ Is(at, "RPAREN") /\ pc' = "idle" /\ UNCHANGED <<files, spoiled>>
        /\ done' = IF table \in spoiled THEN done
                   ELSE [done EXCEPT ![table] = Append(@, stmt)]
    BY <1>3 DEF CreateEnds, Finish, Recorded
  <2>2. done[table] = <<>>
    BY <1>1 DEF HInv, NoneYet
  <2>3. AtRest'
    <3> SUFFICES ASSUME NEW t \in DOMAIN done', Known(t)'
                 PROVE  Filled(files'[t], Len(done'[t]) - 1)
      BY DEF AtRest
    <3>1. CASE t # table
      <4>1. Known(t) /\ t \in DOMAIN done /\ done'[t] = done[t]
        BY <2>1, <3>1 DEF Known
      <4> QED
        BY <2>1, <3>1, <4>1 DEF NInv, AtRest
    <3>2. CASE t = table
      <4>1. table \notin spoiled
        BY <2>1, <3>2 DEF Known
      <4>2. done'[t] = <<stmt>>
        BY <2>1, <2>2, <3>2, <4>1
      <4>3. <<stmt>>[1] = stmt /\ Len(<<stmt>>) = 1
        OBVIOUS
      <4>4. Small(stmt.toks)
        BY <4>2, <4>3 DEF Known
      <4>5. TupleStart(files[table]) = Len(files[table]) + 1
        BY <1>1, <2>1, <4>1, <4>4, HeaderDone
      <4>6. files[table] \in Seq(Nat) /\ HasHeader(files[table])
        BY <1>1, <2>1, <4>1, <4>4, HeaderDone DEF ReadsBack, KInv, Placed, StoreTyped, Piece, Creating
      <4>7. RowBytes(Header(files[table])) \in Int
        BY <4>6, RowBytesTyped
      <4>8. Filled(files[table], 0)
        BY <4>5, <4>6, <4>7 DEF Filled
      <4>9. Len(done'[t]) - 1 = 0
        BY <4>2, <4>3
      <4> QED
        BY <2>1, <3>2, <4>8, <4>9
    <3> QED
      BY <3>1, <3>2
  <2> QED
    BY <2>1, <2>3 DEF NInv, AttrsAre, ElemsFit, InWriting, BeforeFilled, Inserting, Inserts
<1> QED
  BY <1>2, <1>3

\* INSERT goes on reading.
LEMMA RowsWhileReading ==
  ASSUME NInv, pc \in Inserts, pc' \in Inserts, stmt.command = "INSERT",
         UNCHANGED <<files, stmt, attrs, before, done, spoiled>>, ElemsFit'
  PROVE  NInv'
<1>1. table' = table /\ pc # "write" /\ pc' # "write" /\ Inserting /\ Inserting'
  BY DEF table, Inserts, Inserting
<1>2. AtRest'
  BY <1>1 DEF NInv, AtRest, Known
<1>3. AttrsAre'
  BY <1>1 DEF NInv, AttrsAre
<1>4. BeforeFilled'
  BY <1>1 DEF NInv, BeforeFilled, Known
<1> QED
  BY <1>1, <1>2, <1>3, <1>4 DEF NInv, InWriting

LEMMA ColumnsFit ==
  ASSUME KInv, IInv, Columns
  PROVE  ElemsFit'
<1>1. pc = "columns?" /\ UNCHANGED attrs
  BY DEF Columns
<1>2. CASE elems' = [k \in DOMAIN attrs |-> Element("NULL")]
  BY <1>1, <1>2 DEF ElemsFit, ElemFits, Element
<1>3. CASE elems' = [k \in DOMAIN attrs |-> Element(attrs[k].type)]
  BY <1>1, <1>3 DEF ElemsFit, ElemFits, Element
<1> QED
  BY <1>2, <1>3 DEF Columns

LEMMA ColumnFits ==
  ASSUME KInv, IInv, NInv, Column
  PROVE  ElemsFit'
<1>1. pc = "columns" /\ UNCHANGED attrs
  BY DEF Column
<1>2. PICK k \in Named : elems' = [elems EXCEPT ![k] = Element(attrs[k].type)]
  BY DEF Column
<1>3. DOMAIN elems = DOMAIN attrs
  BY <1>1 DEF KInv, ReadingTyped, ElemsTyped
<1>4. \A j \in DOMAIN attrs : ElemFits(attrs[j], elems[j])
  BY <1>1 DEF NInv, ElemsFit
<1>5. ElemFits(attrs[k], Element(attrs[k].type))
  BY DEF ElemFits, Element
<1> QED
  BY <1>1, <1>2, <1>3, <1>4, <1>5 DEF ElemsFit

LEMMA ValueFitting ==
  ASSUME KInv, IInv, NInv, Value
  PROVE  ElemsFit'
<1>1. pc = "values" /\ UNCHANGED attrs
  BY DEF Value
<1>2. PICK k \in Goal, v \in Operands :
        /\ Fits(k, v)
        /\ elems' = [elems EXCEPT ![k] = [type |-> v.type, set |-> TRUE, val |-> v.val]]
  BY DEF Value
<1>3. DOMAIN elems = DOMAIN attrs
  BY <1>1 DEF KInv, ReadingTyped, ElemsTyped
<1>4. \A j \in DOMAIN attrs : ElemFits(attrs[j], elems[j])
  BY <1>1 DEF NInv, ElemsFit
<1>5. k \in DOMAIN attrs => ElemFits(attrs[k], [type |-> v.type, set |-> TRUE, val |-> v.val])
  BY <1>2, <1>4 DEF ElemFits, Fits
<1> QED
  BY <1>1, <1>2, <1>3, <1>4, <1>5 DEF ElemsFit

LEMMA InsertReadsRows ==
  ASSUME IInv, KInv, HInv, NInv,
         \/ Columns \/ Column \/ ColumnFails \/ ColumnsEnd
         \/ Values \/ Value \/ ValueFails
  PROVE  NInv'
<1>1. pc \in Inserts
  BY DEF Columns, Column, ColumnFails, ColumnsEnd, Values, Value, ValueFails, Inserts
<1>2. pc # "idle" /\ pc # "write" /\ stmt.command = "INSERT"
  BY <1>1 DEF Inserts, IInv, WhichCommand
<1>3. CASE Fail
  BY <1>2, <1>3, RowsLeft DEF Fail, Finish
<1>4. CASE ~Fail
  <2>1. /\ UNCHANGED <<files, stmt, attrs, before, done, spoiled>> /\ pc' \in Inserts
    BY <1>4 DEF Columns, Column, ColumnFails, ColumnsEnd, Values, Value, ValueFails,
       Inserts, histVars
  <2>2. CASE Columns \/ Column \/ Value
    BY <1>1, <1>2, <2>1, <2>2, ColumnsFit, ColumnFits, ValueFitting, RowsWhileReading
  <2>3. CASE ColumnsEnd \/ Values
    <3>1. UNCHANGED elems /\ pc \in {"columns", "values?"}
      BY <1>4, <2>3 DEF ColumnsEnd, Values
    <3>2. ElemsFit'
      BY <2>1, <3>1 DEF NInv, ElemsFit
    <3> QED
      BY <1>1, <1>2, <2>1, <3>2, RowsWhileReading
  <2> QED
    BY <1>4, <2>2, <2>3 DEF ColumnFails, ValueFails
<1> QED
  BY <1>3, <1>4

\* Every value is there, and fits.
LEMMA RowPending ==
  ASSUME IInv, KInv, HInv, NInv, ValuesEnd, ~Fail, Known(table), table \notin spoiled'
  PROVE  /\ pending' \in Seq(Piece)
         /\ Total(pending') = RowBytes(Header(files[table]))
<1>1. pc = "values" /\ pc' = "write"
  BY DEF ValuesEnd
<1>2. IsTable(attrs) /\ ElemsTyped /\ attrs = Header(files[table])
      /\ \A k \in DOMAIN attrs : ElemFits(attrs[k], elems[k])
  BY <1>1 DEF KInv, ReadingTyped, Inserts, NInv, AttrsAre, ElemsFit
<1> DEFINE filled(i, s) ==
             [k \in DOMAIN elems |->
                IF elems[k].set THEN elems[k]
                ELSE [elems[k] EXCEPT !.val = IF elems[k].type = "INT" THEN i ELSE s]]
<1>3. PICK i \in StrayInts, s \in StrayStrings :
         pending' = RowPieces(attrs, filled(i, s))
  BY DEF ValuesEnd
<1>4. DOMAIN elems = DOMAIN attrs /\ DOMAIN attrs = 1..Len(attrs) /\ Len(attrs) \in Nat
  BY <1>2 DEF ElemsTyped, IsTable
<1>5. \A k \in DOMAIN elems : elems[k].set \/ elems[k].type = "NULL"
  BY DEF ValuesEnd
<1>6. \A k \in DOMAIN attrs : attrs[k].type = "INT" => attrs[k].size = IntSize
  BY <1>2, KnownHeader
<1>7. PICK e : e = filled(i, s)
  OBVIOUS
<1>8. DOMAIN e = DOMAIN attrs /\ Len(e) = Len(attrs)
  BY <1>4, <1>7
<1>9. ASSUME NEW k \in DOMAIN attrs
      PROVE  /\ e[k].type \in {"NULL", attrs[k].type}
             /\ e[k].type = "INT" => e[k].val \in Int /\ attrs[k].size = IntSize
             /\ e[k].type = "STRING" => e[k].val \in Piece /\ attrs[k].size >= Len(e[k].val) + 1
  <2>1. ElemTyped(elems[k]) /\ ElemFits(attrs[k], elems[k])
    BY <1>2 DEF ElemsTyped
  <2>2. CASE elems[k].set
    <3>1. e[k] = elems[k]
      BY <1>4, <1>7, <2>2
    <3> QED
      BY <1>6, <2>1, <2>2, <3>1 DEF ElemTyped, ElemFits, ValueTyped
  <2>3. CASE ~elems[k].set
    <3>1. elems[k].type = "NULL"
      BY <1>4, <1>5, <2>3
    <3>2. e[k] = [elems[k] EXCEPT !.val = IF elems[k].type = "INT" THEN i ELSE s]
      BY <1>4, <1>7, <2>3
    <3>3. e[k].type = "NULL"
      BY <2>1, <3>1, <3>2 DEF ElemTyped
    <3> QED
      BY <3>3
  <2> QED
    BY <2>2, <2>3
<1> HIDE DEF filled
<1>10. Fitting(attrs, e)
  BY <1>9 DEF Fitting
<1>11. /\ RowPieces(attrs, e) \in Seq(Piece)
       /\ Total(RowPieces(attrs, e)) = RowBytes(attrs)
  BY <1>2, <1>8, <1>10, RowTotal
<1> QED
  BY <1>2, <1>3, <1>7, <1>11

LEMMA ValuesEndRows ==
  ASSUME IInv, KInv, HInv, NInv, ValuesEnd
  PROVE  NInv'
<1>1. pc = "values" /\ stmt.command = "INSERT" /\ Inserting
  BY DEF ValuesEnd, IInv, WhichCommand, Inserts, Inserting
<1>2. CASE Fail
  BY <1>1, <1>2, RowsLeft DEF Fail, Finish
<1>3. CASE ~Fail
  <2>1. /\ pc' = "write" /\ UNCHANGED <<files, stmt, before, done>>
        /\ spoiled' \in {spoiled, spoiled \cup {table}}
    BY <1>3 DEF ValuesEnd
  <2>2. table' = table /\ \A t : Known(t)' => Known(t)
    BY <2>1 DEF table, Known
  <2>3. AtRest'
    BY <1>1, <2>1, <2>2 DEF NInv, AtRest
  <2>4. BeforeFilled'
    BY <1>1, <2>1, <2>2 DEF NInv, BeforeFilled
  <2>5. InWriting'
    <3> SUFFICES ASSUME Known(table)'
                 PROVE  Len(files[table]) + Total(pending') =
                          TupleStart(files[table]) - 1
                            + Len(done[table]) * RowBytes(Header(files[table]))
      BY <2>1, <2>2 DEF InWriting
    <3>1. Known(table) /\ table \notin spoiled' /\ table \in DOMAIN done
      BY <2>1, <2>2 DEF Known
    <3>2. Total(pending') = RowBytes(Header(files[table]))
      BY <1>3, <3>1, RowPending
    <3>3. Filled(files[table], Len(done[table]) - 1)
      BY <1>1, <3>1 DEF NInv, AtRest
    <3>4. /\ files[table] \in Seq(Nat) /\ HasHeader(files[table])
          /\ Len(done[table]) \in Nat
      BY <3>1, KnownHeader
    <3>5. PICK w \in Nat : w = RowBytes(Header(files[table]))
      BY <3>4, RowBytesTyped
    <3>6. PICK l \in Nat : l = Len(files[table])
      BY <3>4
    <3>7. PICK p \in Nat : p = TupleStart(files[table])
      BY <3>4, HeaderWithin
    <3>8. PICK n \in Nat : n = Len(done[table])
      BY <3>4
    <3>9. l = p - 1 + (n - 1) * w
      BY <3>3, <3>5, <3>6, <3>7, <3>8 DEF Filled
    <3>10. (n - 1) * w + w = n * w
      OBVIOUS
    <3>11. l + w = p - 1 + n * w
      BY <3>9, <3>10
    <3> QED
      BY <3>2, <3>5, <3>6, <3>7, <3>8, <3>11
  <2>6. AttrsAre' /\ ElemsFit'
    BY <2>1 DEF AttrsAre, ElemsFit, Inserts
  <2> QED
    BY <2>3, <2>4, <2>5, <2>6 DEF NInv
<1> QED
  BY <1>2, <1>3

LEMMA InsertEndsRows ==
  ASSUME IInv, KInv, HInv, NInv, InsertEnds
  PROVE  NInv'
<1>1. /\ pc = "write" /\ pending = <<>> /\ stmt.command # "CREATE" /\ pc' = "idle"
      /\ UNCHANGED <<files, spoiled>>
      /\ done' = IF table \in spoiled THEN done
                 ELSE [done EXCEPT ![table] = Append(@, stmt)]
  BY DEF InsertEnds, Finish, Recorded
<1>2. AtRest'
  <2> SUFFICES ASSUME NEW t \in DOMAIN done', Known(t)'
               PROVE  Filled(files'[t], Len(done'[t]) - 1)
    BY DEF AtRest
  <2>1. t \in DOMAIN done /\ t \notin spoiled
    BY <1>1 DEF Known
  <2>2. CASE t # table
    <3>1. Known(t) /\ done'[t] = done[t]
      BY <1>1, <2>1, <2>2 DEF Known
    <3> QED
      BY <1>1, <2>1, <2>2, <3>1 DEF NInv, AtRest
  <2>3. CASE t = table
    <3>1. done'[t] = Append(done[t], stmt)
      BY <1>1, <2>1, <2>3
    <3>2. done[t] \in Seq(Statements) /\ done[t] # <<>>
      BY <1>1, <2>1 DEF HInv, RecordsTyped, NeverMade, Creating
    <3>3. PICK q \in Seq(Statements) : q = done[t] /\ q # <<>>
      BY <3>2
    <3>4. Append(q, stmt)[1] = q[1] /\ Len(Append(q, stmt)) - 1 = Len(q)
      <4>1. Len(q) \in Nat /\ Len(q) >= 1
        BY <3>3
      <4>2. 1 \in 1..Len(q)
        BY <4>1
      <4>3. PICK x : x = stmt
        OBVIOUS
      <4>4. Append(q, x)[1] = q[1] /\ Len(Append(q, x)) = Len(q) + 1
        BY <4>2
      <4> QED
        BY <4>1, <4>3, <4>4
    <3>5. Known(t)
      BY <1>1, <2>1, <3>1, <3>3, <3>4 DEF Known
    <3>6. Len(files[t]) + Total(<<>>) =
            TupleStart(files[t]) - 1 + Len(done[t]) * RowBytes(Header(files[t]))
      BY <1>1, <2>3, <3>5 DEF NInv, InWriting
    <3>7. Len(files[t]) \in Nat
      BY <3>5, KnownHeader
    <3>8. Filled(files[t], Len(done[t]))
      BY <3>6, <3>7, TotalNone DEF Filled
    <3> QED
      BY <1>1, <3>1, <3>3, <3>4, <3>8
  <2> QED
    BY <2>2, <2>3
<1> QED
  BY <1>1, <1>2 DEF NInv, AttrsAre, ElemsFit, InWriting, BeforeFilled, Inserting, Inserts

\* What INSERT found in its file stays in front.
LEMMA BehindBefore ==
  ASSUME KInv, HInv, Inserting
  PROVE  /\ table \in DOMAIN files /\ table \in DOMAIN before
         /\ before[table] \in Seq(Nat) /\ files[table] \in Seq(Nat)
         /\ Prefix(before[table], files[table]) /\ HasHeader(before[table])
         /\ kept = Len(before[table])
<1>1. table \in DOMAIN files /\ table \in DOMAIN before /\ kept = Len(before[table])
  BY DEF Inserting, KInv, Placed
<1>2. /\ before[table] \in Seq(Nat) /\ files[table] \in Seq(Nat)
      /\ Prefix(before[table], files[table])
  BY <1>1 DEF KInv, StoreTyped, BytesKept, Piece
<1>3. HasHeader(before[table])
  BY DEF Inserting, HInv, HeaderFound
<1> QED
  BY <1>1, <1>2, <1>3

LEMMA WriteRows ==
  ASSUME IInv, KInv, HInv, NInv, Write
  PROVE  NInv'
<1>1. /\ pc = "write" /\ pending # <<>> /\ pc' = "write"
      /\ files' = [files EXCEPT ![table] = files[table] \o Head(pending)]
      /\ pending' = Tail(pending)
      /\ UNCHANGED <<stmt, at, attrs, before, done, spoiled>>
  BY DEF Write, Added, readVars, histVars
<1>2. table' = table /\ \A t : Known(t)' <=> Known(t)
  BY <1>1 DEF table, Known
<1>3. CASE stmt.command = "CREATE"
  <2>1. Creating /\ Creating' /\ pc' \notin Inserts
    BY <1>1, <1>3 DEF Creating, Inserts
  <2>2. \A t \in DOMAIN files : t # table => files'[t] = files[t]
    BY <1>1
  <2> QED
    BY <1>1, <2>1, <2>2, RowsWhileCreating
<1>4. CASE stmt.command # "CREATE"
  <2>1. Inserting /\ Inserting'
    BY <1>1, <1>4 DEF Inserting
  <2>2. AtRest'
    <3> SUFFICES ASSUME NEW t \in DOMAIN done', Known(t)', t # table
                 PROVE  Filled(files'[t], Len(done'[t]) - 1)
      BY <1>1, <1>2 DEF AtRest
    <3>1. Known(t) /\ t \in DOMAIN done /\ t \in DOMAIN files
      BY <1>1, <1>2 DEF HInv, RecordsTyped
    <3>2. files'[t] = files[t]
      BY <1>1, <3>1
    <3> QED
      BY <1>1, <3>1, <3>2 DEF NInv, AtRest
  <2>3. InWriting'
    <3> SUFFICES ASSUME Known(table)
                 PROVE  Len(files'[table]) + Total(pending') =
                          TupleStart(files'[table]) - 1
                            + Len(done[table]) * RowBytes(Header(files'[table]))
      BY <1>1, <1>2 DEF InWriting
    <3>1. /\ table \in DOMAIN files /\ before[table] \in Seq(Nat)
          /\ files[table] \in Seq(Nat) /\ Prefix(before[table], files[table])
          /\ HasHeader(before[table])
      BY <2>1, BehindBefore
    <3>2. pending \in Seq(Piece)
      BY <1>1 DEF KInv, ReadingTyped
    <3>3. PICK y \in Piece : y = Head(pending)
      BY <1>1, <3>2, TotalTail
    <3>4. PICK f \in Piece : f = files[table]
      BY <3>1 DEF Piece
    <3>5. files'[table] = f \o y
      BY <1>1, <3>1, <3>3, <3>4
    <3>6. PICK g \in Piece : g = f \o y
      <4>1. f \o y \in Seq(Nat)
        BY DEF Piece
      <4> QED
        BY <4>1 DEF Piece
    <3>7. Prefix(before[table], g)
      BY <3>1, <3>4, <3>6, PrefixMore DEF Piece
    <3>8. TupleStart(g) = TupleStart(f) /\ Header(g) = Header(f)
      BY <3>1, <3>4, <3>7, HeaderKept DEF Piece
    <3>9. Len(g) = Len(f) + Len(y) /\ Len(f) \in Nat
      BY <3>6 DEF Piece
    <3>10. /\ Total(pending) = Len(y) + Total(pending')
           /\ Len(y) \in Nat /\ Total(pending') \in Nat
      BY <1>1, <3>2, <3>3, TotalTail
    <3>11. Len(f) + Total(pending) =
             TupleStart(f) - 1 + Len(done[table]) * RowBytes(Header(f))
      BY <1>1, <3>4 DEF NInv, InWriting
    <3>12. Len(g) + Total(pending') = Len(f) + Total(pending)
      BY <3>9, <3>10
    <3> QED
      BY <3>5, <3>6, <3>8, <3>11, <3>12
  <2>4. BeforeFilled'
    BY <1>1, <1>2, <2>1 DEF NInv, BeforeFilled
  <2>5. AttrsAre' /\ ElemsFit'
    BY <1>1 DEF AttrsAre, ElemsFit, Inserts
  <2> QED
    BY <2>2, <2>3, <2>4, <2>5 DEF NInv
<1> QED
  BY <1>3, <1>4

LEMMA FullRows ==
  ASSUME IInv, KInv, HInv, NInv, Full
  PROVE  NInv'
<1>1. /\ pc = "write" /\ pc' = "write" /\ spoiled' = spoiled \cup {table}
      /\ \E f : files' = [files EXCEPT ![table] = f]
      /\ UNCHANGED <<stmt, at, attrs, before, done>>
  BY DEF Full, Added, readVars
<1>2. table' = table /\ ~Known(table)' /\ \A t : Known(t)' => Known(t)
  BY <1>1 DEF table, Known
<1>3. AtRest'
  <2> SUFFICES ASSUME NEW t \in DOMAIN done', Known(t)'
               PROVE  Filled(files'[t], Len(done'[t]) - 1)
    BY DEF AtRest
  <2>1. Known(t) /\ t # table /\ t \in DOMAIN done /\ t \in DOMAIN files
    BY <1>1, <1>2 DEF HInv, RecordsTyped
  <2>2. files'[t] = files[t]
    BY <1>1, <2>1
  <2> QED
    BY <1>1, <2>1, <2>2 DEF NInv, AtRest
<1>4. AttrsAre' /\ ElemsFit' /\ InWriting' /\ BeforeFilled'
  BY <1>1, <1>2 DEF AttrsAre, ElemsFit, InWriting, BeforeFilled, Inserts
<1> QED
  BY <1>3, <1>4 DEF NInv

LEMMA CrashRows ==
  ASSUME IInv, KInv, HInv, NInv, Crash
  PROVE  NInv'
<1>1. pc # "idle" /\ pc' = "idle" /\ UNCHANGED <<before, done>>
  BY DEF Crash, Finish
<1>2. PICK n \in kept..Len(files[table]) :
         /\ files' = [files EXCEPT ![table] = SubSeq(files[table], 1, n)]
         /\ spoiled' = IF n > kept \/ stmt.command = "CREATE"
                       THEN spoiled \cup {table} ELSE spoiled
  BY DEF Crash
<1>3. AtRest'
  <2> SUFFICES ASSUME NEW t \in DOMAIN done', Known(t)'
               PROVE  Filled(files'[t], Len(done'[t]) - 1)
    BY DEF AtRest
  <2>1. Known(t) /\ t \in DOMAIN done /\ t \in DOMAIN files
    BY <1>1, <1>2 DEF Known, HInv, RecordsTyped
  <2>2. CASE t # table
    <3>1. files'[t] = files[t]
      BY <1>2, <2>1, <2>2
    <3> QED
      BY <1>1, <2>1, <2>2, <3>1 DEF NInv, AtRest
  <2>3. CASE t = table
    <3>1. ~(n > kept) /\ Inserting
      BY <1>1, <1>2, <2>3 DEF Known, Inserting
    <3>2. /\ table \in DOMAIN files /\ before[table] \in Seq(Nat)
          /\ files[table] \in Seq(Nat) /\ Prefix(before[table], files[table])
          /\ kept = Len(before[table])
      BY <3>1, BehindBefore
    <3>3. PICK b \in Seq(Nat) : b = before[table]
      BY <3>2
    <3>4. PICK f \in Seq(Nat) : f = files[table]
      BY <3>2
    <3>5. n = Len(b) /\ Len(b) <= Len(f) /\ \A i \in 1..Len(b) : f[i] = b[i]
      <4>1. Len(b) \in Nat /\ Len(f) \in Nat /\ kept = Len(b)
        BY <3>2, <3>3
      <4>2. n = kept
        BY <1>2, <3>1, <3>4, <4>1
      <4> QED
        BY <3>2, <3>3, <3>4, <4>1, <4>2 DEF Prefix
    <3>6. SubSeq(f, 1, n) = b
      BY <3>5
    <3>7. files'[t] = before[table]
      BY <1>2, <2>3, <3>2, <3>3, <3>4, <3>6
    <3> QED
      BY <1>1, <2>1, <2>3, <3>1, <3>7 DEF NInv, BeforeFilled
  <2> QED
    BY <2>2, <2>3
<1> QED
  BY <1>1, <1>3 DEF NInv, AttrsAre, ElemsFit, InWriting, BeforeFilled, Inserting, Inserts

-----------------------------------------------------------------------------
LEMMA RowsInitially == Init => NInv
  BY DEF Init, NInv, AttrsAre, ElemsFit, AtRest, InWriting, BeforeFilled, Inserting,
     Inserts

LEMMA RowsInductive == IInv /\ KInv /\ HInv /\ NInv /\ [Next]_vars => NInv'
<1> SUFFICES ASSUME IInv, KInv, HInv, NInv, [Next]_vars PROVE NInv'
  OBVIOUS
<1>1. CASE \E s \in Statements : CreateFile(s) \/ InsertInto(s)
  BY <1>1, CreateFileRows, InsertIntoRows
<1>2. CASE Bracket \/ Declare \/ DeclareFails \/ Declarations \/ CreateEnds
  BY <1>2, CreateReadsRows, CreateEndsRows
<1>3. CASE \/ Columns \/ Column \/ ColumnFails \/ ColumnsEnd
           \/ Values \/ Value \/ ValueFails \/ ValuesEnd
  BY <1>3, InsertReadsRows, ValuesEndRows
<1>4. CASE InsertEnds \/ Write \/ Full \/ Crash
  BY <1>4, InsertEndsRows, WriteRows, FullRows, CrashRows
<1>5. CASE UNCHANGED vars
  <2>1. UNCHANGED <<files, stmt, attrs, elems, pending, pc, before, done, spoiled>>
    BY <1>5 DEF vars, histVars, readVars
  <2>2. table' = table /\ Inserting' = Inserting /\ \A t : Known(t)' <=> Known(t)
    BY <2>1 DEF table, Inserting, Known
  <2> QED
    BY <2>1, <2>2 DEF NInv, AttrsAre, ElemsFit, AtRest, InWriting, BeforeFilled
<1> QED
  BY <1>1, <1>2, <1>3, <1>4, <1>5 DEF Next

\* As many tuples are found in a file as it is full of.
LEMMA FilledCount ==
  ASSUME NEW f \in Seq(Nat), HasHeader(f), NEW n \in Nat, Filled(f, n),
         Header(f) # <<>>, RowBytes(Header(f)) = TupleWidth(Header(f))
  PROVE  Len(Tuples(f)) = n
<1> DEFINE h == Header(f)
<1>1. f[1] \in Nat /\ Len(h) = f[1] /\ DOMAIN h = 1..f[1] /\ h = [k \in 1..f[1] |-> h[k]]
  BY HeaderIs
<1>2. f[1] > 0
  <2>1. f[1] = 0 => h = <<>>
    BY <1>1
  <2> QED
    BY <1>1, <2>1
<1>3. PICK w \in Nat \ {0} : w = TupleWidth(h)
  BY <1>2, WidthPositive
<1>4. PICK p \in Nat : p = TupleStart(f)
  BY HeaderWithin
<1>5. PICK l \in Nat : l = Len(f)
  OBVIOUS
<1>6. l = p - 1 + n * w
  BY <1>3, <1>4, <1>5 DEF Filled
<1>7. l + 1 - p = n * w
  <2>1. n * w \in Nat
    OBVIOUS
  <2> QED
    BY <1>6, <2>1
<1>8. (n * w) \div w = n
  OBVIOUS
<1>9. HowMany(f) = n
  BY <1>3, <1>4, <1>5, <1>7, <1>8 DEF HowMany
<1> HIDE DEF h
<1>10. \E r : Tuples(f) = [i \in 1..n |-> r[i]]
  <2>1. PICK r : r = [i \in 1..n |-> TupleAtByte(f, Header(f), TupleStart(f) + (i - 1) * TupleWidth(Header(f)))]
    OBVIOUS
  <2>2. Tuples(f) = r
    BY <1>9, <2>1, TuplesAre
  <2>3. r = [i \in 1..n |-> r[i]]
    BY <2>1
  <2> QED
    BY <2>2, <2>3
<1> QED
  BY <1>10

(* A table that no crash and no full storage has touched, and in which no   *)
(* value was left to chance, holds between two statements the rows that     *)
(* were inserted and no byte of another: a statement that failed, on this   *)
(* table or on another, has left nothing of a row behind, and a scan finds  *)
(* as many tuples as INSERT wrote.                                          *)
THEOREM NoOtherRows == Spec => []NothingElse
<1>1. /\ Init => IInv /\ KInv /\ HInv /\ NInv
      /\ IInv /\ KInv /\ HInv /\ NInv /\ [Next]_vars => IInv' /\ KInv' /\ HInv' /\ NInv'
  BY Initially, KeptInitially, HeaderInitially, RowsInitially, Inductive, KeptInductive,
     HeaderInductive, RowsInductive
<1>2. KInv /\ HInv /\ NInv => NothingElse
  <2> SUFFICES ASSUME KInv, HInv, NInv, Idle, NEW t \in DOMAIN done \ spoiled,
                      Small(done[t][1].toks)
               PROVE  LET f    == files[t]
                          h    == Header(f)
                          rows == Len(done[t]) - 1
                      IN /\ Filled(f, rows)
                         /\ h # <<>> /\ RowBytes(h) = BitBytes(Len(h)) + TupleSize(h) =>
                              Len(Tuples(f)) = rows
    BY DEF NothingElse
  <2>1. done[t] # <<>>
    BY DEF HInv, NeverMade, Creating, Idle
  <2>2. Known(t)
    BY <2>1 DEF Known
  <2>3. Filled(files[t], Len(done[t]) - 1)
    BY <2>2 DEF NInv, AtRest, Idle
  <2>4. /\ files[t] \in Seq(Nat) /\ HasHeader(files[t])
        /\ Len(done[t]) \in Nat /\ Len(done[t]) >= 1
    BY <2>2, KnownHeader
  <2>5. PICK f \in Seq(Nat) : f = files[t]
    BY <2>4
  <2>6. PICK n \in Nat : n = Len(done[t]) - 1
    <3>1. PICK m \in Nat : m = Len(done[t]) /\ m >= 1
      BY <2>4
    <3>2. m - 1 \in Nat
      BY <3>1
    <3> QED
      BY <3>1, <3>2
  <2>7. Header(f) # <<>> /\ RowBytes(Header(f)) = TupleWidth(Header(f)) => Len(Tuples(f)) = n
    BY <2>3, <2>4, <2>5, <2>6, FilledCount
  <2> QED
    BY <2>3, <2>5, <2>6, <2>7 DEF TupleWidth
<1> QED
  BY <1>1, <1>2, PTL DEF Spec
=============================================================================
