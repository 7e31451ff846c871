---------------------------- MODULE Objects_proofs ----------------------------
(***************************************************************************)
(* What lies behind the objects of a program, proved for lists of any      *)
(* size, ranges of any length and any number of files; tables and          *)
(* prototypes have proofs of their own, in Table_proofs and Protos_proofs. *)
(***************************************************************************)
EXTENDS MCObjects, Table_proofs, Protos_proofs

-----------------------------------------------------------------------------
(* Files.                                                                  *)

\* What ClosedOnce needs to be inductive: an object that still owns its FILE
\* has given it to fclose() only in vain.
Owned == \A f \in FileObjects :
            /\ state[f] = "unmade" => fcloses[f] = 0
            /\ closed[f] => fcloses[f] >= 1
            /\ (state[f] = "live" /\ ~closed[f] /\ fcloses[f] >= 1) => f \in failed

\* A buffer has room for a chunk, and is no smaller than one.
Buffer == ~NotReading => bufsz >= Chunk

FilesInv == FilesTypeOK /\ Owned /\ ClosedOnce /\ Buffer /\ BufferFits

LEMMA FilesInvInit == ASSUME FilesInit PROVE FilesInv
BY FilesAssumption DEF FilesInit, FilesInv, FilesTypeOK, Owned, ClosedOnce, Buffer, BufferFits, NotReading

\* One call of fclose() on a file that is not marked closed.
LEMMA FcloseKept ==
    ASSUME FilesInv, NEW f \in FileObjects, NEW ok \in BOOLEAN,
           state[f] = "live", ~closed[f], Fclose(f, ok)
    PROVE  /\ fcloses' \in [FileObjects -> Nat] /\ failed' \subseteq FileObjects
           /\ fcloses'[f] >= 1 /\ (fcloses'[f] > 1 => f \in failed')
           /\ (~ok => f \in failed')
           /\ \A g \in FileObjects \ {f} : fcloses'[g] = fcloses[g] /\ (g \in failed' <=> g \in failed)
BY DEF FilesInv, FilesTypeOK, Owned, ClosedOnce, Fclose

\* Making, closing and freeing files keeps the invariant.
LEMMA FileKept ==
    ASSUME FilesInv, NEW f \in FileObjects,
           File_new(f) \/ File_close(f) \/ extio_file_free(f)
    PROVE  FilesInv'
<1>0. UNCHANGED buffer /\ NotReading
  BY DEF File_new, File_close, extio_file_free
<1>1. Buffer' /\ BufferFits'
  BY <1>0 DEF Buffer, BufferFits, NotReading, buffer
<1>2. CASE File_new(f)
  BY <1>1, <1>2 DEF File_new, FilesInv, FilesTypeOK, Owned, ClosedOnce, buffer
<1>3. CASE File_close(f)
  <2>1. CASE closed[f]
    BY <1>1, <1>3, <2>1 DEF File_close, FilesInv, FilesTypeOK, Owned, ClosedOnce, buffer
  <2>2. CASE ~closed[f]
    <3>1. PICK ok \in BOOLEAN : /\ Fclose(f, ok)
                                /\ closed' = IF ok THEN [closed EXCEPT ![f] = TRUE] ELSE closed
      BY <1>3, <2>2 DEF File_close
    <3>2. state[f] = "live" /\ UNCHANGED <<state, buffer>>
      BY <1>3 DEF File_close
    <3>3. /\ fcloses' \in [FileObjects -> Nat] /\ failed' \subseteq FileObjects
          /\ fcloses'[f] >= 1 /\ (fcloses'[f] > 1 => f \in failed')
          /\ (~ok => f \in failed')
          /\ \A g \in FileObjects \ {f} : fcloses'[g] = fcloses[g] /\ (g \in failed' <=> g \in failed)
      BY <3>1, <3>2, <2>2, FcloseKept
    <3> QED
      BY <1>1, <3>1, <3>2, <3>3, <2>2 DEF FilesInv, FilesTypeOK, Owned, ClosedOnce, buffer
  <2> QED BY <2>1, <2>2
<1>4. CASE extio_file_free(f)
  <2>1. CASE closed[f]
    BY <1>1, <1>4, <2>1 DEF extio_file_free, FilesInv, FilesTypeOK, Owned, ClosedOnce, buffer
  <2>2. CASE ~closed[f]
    <3>1. PICK ok \in BOOLEAN : Fclose(f, ok)
      BY <1>4, <2>2 DEF extio_file_free
    <3>2. /\ state[f] = "live" /\ state' = [state EXCEPT ![f] = "freed"]
          /\ UNCHANGED <<closed, buffer>>
      BY <1>4 DEF extio_file_free
    <3>3. /\ fcloses' \in [FileObjects -> Nat] /\ failed' \subseteq FileObjects
          /\ fcloses'[f] >= 1 /\ (fcloses'[f] > 1 => f \in failed')
          /\ \A g \in FileObjects \ {f} : fcloses'[g] = fcloses[g] /\ (g \in failed' <=> g \in failed)
      BY <3>1, <3>2, <2>2, FcloseKept
    <3> QED
      BY <1>1, <3>2, <3>3, <2>2 DEF FilesInv, FilesTypeOK, Owned, ClosedOnce, buffer
  <2> QED BY <2>1, <2>2
<1> QED BY <1>2, <1>3, <1>4

\* Doubling is enough: the bytes read fill the buffer at most.
LEMMA ReadKept ==
    ASSUME FilesInv, (\E f \in FileObjects : File_read(f)) \/ FullChunk \/ LastChunk
    PROVE  FilesInv'
<1>0. UNCHANGED files
  BY DEF File_read, FullChunk, LastChunk
<1>1. (Owned /\ ClosedOnce)'
  BY <1>0 DEF files, FilesInv, Owned, ClosedOnce
<1>2. CASE \E f \in FileObjects : File_read(f)
  BY FilesAssumption, <1>0, <1>1, <1>2 DEF File_read, Resize, FilesInv, FilesTypeOK, Buffer, BufferFits, files
<1>3. CASE FullChunk
  <2>1. /\ ~NotReading /\ n' = n + Chunk /\ UNCHANGED reading
        /\ bufsz' = IF bufsz < n' + Chunk THEN 2 * bufsz ELSE bufsz
    BY <1>3 DEF FullChunk, Resize
  <2>2. n \in Nat /\ bufsz \in Nat /\ n + Chunk <= bufsz /\ Chunk <= bufsz
    BY <2>1 DEF FilesInv, FilesTypeOK, Buffer, BufferFits
  <2>3. n' \in Nat /\ bufsz' \in Nat /\ n' + Chunk <= bufsz' /\ Chunk <= bufsz'
    BY FilesAssumption, <2>1, <2>2
  <2> QED
    BY <1>0, <1>1, <2>1, <2>3 DEF files, FilesInv, FilesTypeOK, Buffer, BufferFits
<1>4. CASE LastChunk
  BY <1>0, <1>1, <1>4 DEF LastChunk, EndRead, FilesInv, FilesTypeOK, Buffer, BufferFits, NotReading, files
<1> QED BY <1>2, <1>3, <1>4

LEMMA FilesInvNext == ASSUME FilesInv, [FilesNext]_fileVars PROVE FilesInv'
<1>1. CASE FilesNext
  BY <1>1, FileKept, ReadKept DEF FilesNext
<1>2. CASE UNCHANGED fileVars
  BY <1>2 DEF fileVars, files, buffer, FilesInv, FilesTypeOK, Owned, ClosedOnce, Buffer, BufferFits, NotReading
<1> QED BY <1>1, <1>2

\* Each FILE is closed when its object is freed, by then at the latest, and it
\* is given to fclose() again only after an fclose() that failed.
THEOREM EachFileClosedOnce == FilesSpec => []ClosedOnce
<1>1. FilesInv => ClosedOnce
  BY DEF FilesInv
<1> QED BY <1>1, FilesInvInit, FilesInvNext, PTL DEF FilesSpec

\* fread() is never asked for more than the buffer has room for, whatever the
\* size of a chunk and the length of the file.
THEOREM BufferIsLargeEnough == FilesSpec => []BufferFits
<1>1. FilesInv => BufferFits
  BY DEF FilesInv
<1> QED BY <1>1, FilesInvInit, FilesInvNext, PTL DEF FilesSpec

-----------------------------------------------------------------------------
(* Ranges.                                                                 *)

\* Where a loop is after k steps.
Stride(k) == IF start <= end THEN start + 2 * k ELSE start - 2 * k

\* The loop has seen the numbers up to the last, all of them in the range, and
\* has stopped because the next one is not.  This is so for ranges that stay
\* where the numbers at whole distances from the start are doubles.
RangeFields == start \in Int /\ end \in Int /\ inclusive \in BOOLEAN /\ R!Near

Strides == seen \in Seq(Int) /\ \A k \in 1..Len(seen) : seen[k] = Stride(k - 1)

Reached == IF at = NIL THEN seen = <<>>
           ELSE seen # <<>> /\ at = Stride(Len(seen) - 1) /\ R!Within(at)

Stopped == ~on => IF at = NIL THEN start = end /\ ~inclusive
                  ELSE IF start <= end THEN ~R!Within(at + 2) ELSE ~R!Within(at - 2)

RangeInv == RangeFields /\ Strides /\ Reached /\ Stopped

\* At first the loop has seen nothing.
LEMMA RangeInit == ASSUME R!Init, R!Near PROVE RangeInv
  BY DEF R!Init, R!Numbers, RangeInv, RangeFields, Strides, Reached, Stopped

\* A multiple of the distance between doubles is a double.
LEMMA Doubles ==
    ASSUME NEW x \in Int, x % R!Spacing(x) = 0
    PROVE  R!Round(x) = x
<1>1. R!Spacing(x) \in {1, 2, 4, 8}
  BY DEF R!Spacing
<1> QED
  BY <1>1 DEF R!Round

\* Whatever is rounded is a whole number of halves.
LEMMA RoundType == ASSUME NEW x \in Int PROVE R!Round(x) \in Int
<1>1. R!Spacing(x) \in {1, 2, 4, 8}
  BY DEF R!Spacing
<1>2. R!Spacing(x) \in Int /\ x % R!Spacing(x) \in Int
  BY <1>1
<1> QED
  BY <1>2 DEF R!Round

\* What the ends of such a range are, and where Limit is.
LEMMA RangeBounds ==
    ASSUME RangeFields
    PROVE  /\ Limit \in Nat /\ \E k \in Nat : Limit = 8 * k /\ k >= 1
           /\ R!Exact \in Int /\ start \in -R!Exact..R!Exact /\ end \in -R!Exact..R!Exact
           /\ R!Exact = IF start % 2 = 0 THEN 2 * Limit ELSE Limit - 1
<1>1. Limit \in Nat /\ Limit % 8 = 0 /\ Limit >= 8
  BY ObjectsAssumption
<1>2. Limit = 8 * (Limit \div 8) /\ Limit \div 8 \in Nat /\ Limit \div 8 >= 1
  BY <1>1
<1> QED
  BY <1>1, <1>2 DEF RangeFields, R!Near, R!Exact

\* One more or less than a number of such a range is a double, or is rounded to
\* that number, or lies beyond the range, and so does what it is rounded to.
LEMMA NextNumber ==
    ASSUME RangeFields, NEW a \in Int, R!Within(a), a % 2 = start % 2,
           NEW next \in Int, next = IF start <= end THEN a + 2 ELSE a - 2
    PROVE  \/ R!Round(next) = next \/ R!Round(next) = a
           \/ ~R!Within(R!Round(next)) /\ ~R!Within(next)
<1>1. PICK k \in Nat : k >= 1 /\ Limit = 8 * k
  BY RangeBounds
<1>2. start \in Int /\ end \in Int /\ R!Exact \in Int
  BY RangeBounds DEF RangeFields
<1>3. a \in -R!Exact..R!Exact /\ IF start <= end THEN a <= end ELSE end <= a
  BY <1>2, RangeBounds DEF R!Within
<1>4. CASE start % 2 = 0
  <2>1. a \in -(16 * k)..16 * k /\ a % 2 = 0
    BY <1>1, <1>3, <1>4, RangeBounds
  <2>2. CASE next \in -(16 * k)..16 * k
    <3>1. next % 2 = 0 /\ R!Spacing(next) \in {1, 2}
      BY <1>1, <2>1, <2>2 DEF R!Spacing
    <3> QED
      BY <3>1, Doubles
  <2>3. CASE next = 16 * k + 2
    <3>1. R!Spacing(next) = 4 /\ a = 16 * k
      BY <1>1, <1>2, <2>1, <2>3 DEF R!Spacing
    <3>2. next % 4 = 2 /\ (16 * k) % 8 = 0
      BY <2>3
    <3> QED
      BY <2>3, <3>1, <3>2 DEF R!Round
  <2>4. CASE next = -(16 * k) - 2
    <3>1. R!Spacing(next) = 4 /\ a = -(16 * k)
      BY <1>1, <1>2, <2>1, <2>4 DEF R!Spacing
    <3>2. next % 4 = 2 /\ (-(16 * k) - 4) % 8 = 4
      BY <2>4
    <3> QED
      BY <2>4, <3>1, <3>2 DEF R!Round
  <2> QED
    BY <1>2, <2>1, <2>2, <2>3, <2>4
<1>5. CASE start % 2 # 0
  <2>1. a \in -(8 * k - 1)..(8 * k - 1) /\ a % 2 = 1
    BY <1>1, <1>2, <1>3, <1>5, RangeBounds
  <2>2. CASE next \in -(8 * k)..8 * k
    <3>1. R!Spacing(next) = 1 /\ next % 1 = 0
      BY <1>1, <2>2 DEF R!Spacing
    <3> QED
      BY <3>1, Doubles
  <2>3. CASE next = 8 * k + 1
    <3>1. R!Spacing(next) = 2 /\ start <= end /\ end <= 8 * k - 1
      BY <1>1, <1>2, <1>5, <2>1, <2>3, RangeBounds DEF R!Spacing
    <3>2. next % 2 = 1 /\ (8 * k) % 4 = 0
      BY <2>3
    <3>3. R!Round(next) = 8 * k
      BY <2>3, <3>1, <3>2 DEF R!Round
    <3> QED
      BY <1>2, <2>3, <3>1, <3>3 DEF R!Within
  <2>4. CASE next = -(8 * k) - 1
    <3>1. R!Spacing(next) = 2 /\ ~(start <= end) /\ -(8 * k - 1) <= end
      BY <1>1, <1>2, <1>5, <2>1, <2>4, RangeBounds DEF R!Spacing
    <3>2. next % 2 = 1 /\ (-(8 * k) - 2) % 4 = 2
      BY <2>4
    <3>3. R!Round(next) = -(8 * k)
      BY <2>4, <3>1, <3>2 DEF R!Round
    <3> QED
      BY <1>2, <2>4, <3>1, <3>3 DEF R!Within
  <2> QED
    BY <1>2, <2>1, <2>2, <2>3, <2>4
<1> QED
  BY <1>4, <1>5

\* What the loop does next: it stops where the next number is outside.
LEMMA RangeCases ==
    ASSUME RangeInv, R!Range_iterMore
    PROVE  \/ /\ R!Stop /\ at = NIL /\ start = end /\ ~inclusive
           \/ /\ R!Stop /\ at # NIL
              /\ IF start <= end THEN ~R!Within(at + 2) ELSE ~R!Within(at - 2)
           \/ at = NIL /\ R!Visit(start) /\ (start # end \/ inclusive)
           \/ at # NIL /\ R!Visit(at)
           \/ at # NIL /\ start <= end /\ R!Visit(at + 2) /\ R!Within(at + 2)
           \/ at # NIL /\ ~(start <= end) /\ R!Visit(at - 2) /\ R!Within(at - 2)
<1>1. start \in Int /\ end \in Int
  BY DEF RangeInv, RangeFields
<1>2. PICK len \in Nat : len = Len(seen)
  BY DEF RangeInv, Strides
<1>3. at # NIL => at \in Int /\ R!Within(at) /\ at % 2 = start % 2
  <2>1. at # NIL => len >= 1 /\ at = Stride(len - 1) /\ R!Within(at)
    BY <1>2 DEF RangeInv, Reached
  <2> QED
    BY <1>1, <2>1 DEF Stride
<1> DEFINE v == R!Following(at)
<1>4. at # NIL => \/ v = IF start <= end THEN at + 2 ELSE at - 2
                  \/ v = at
                  \/ ~R!Within(v) /\ IF start <= end THEN ~R!Within(at + 2) ELSE ~R!Within(at - 2)
  <2> SUFFICES ASSUME at # NIL
               PROVE  \/ v = IF start <= end THEN at + 2 ELSE at - 2
                      \/ v = at
                      \/ ~R!Within(v) /\ IF start <= end THEN ~R!Within(at + 2) ELSE ~R!Within(at - 2)
    OBVIOUS
  <2>1. PICK next \in Int : next = IF start <= end THEN at + 2 ELSE at - 2
    BY <1>3
  <2>2. v = R!Round(next)
    BY <2>1 DEF R!Following
  <2>3. R!Round(next) = next \/ R!Round(next) = at \/ (~R!Within(R!Round(next)) /\ ~R!Within(next))
    BY <1>3, <2>1, NextNumber DEF RangeInv
  <2> QED
    BY <2>1, <2>2, <2>3
<1>5. \/ R!Stop /\ start = end /\ ~inclusive
      \/ at = NIL /\ R!Visit(start) /\ (start # end \/ inclusive)
      \/ at # NIL /\ R!Within(v) /\ R!Visit(v)
      \/ at # NIL /\ ~R!Within(v) /\ R!Stop
  BY DEF R!Range_iterMore
<1> HIDE DEF v
<1>6. CASE R!Stop /\ start = end /\ ~inclusive
  <2>1. at # NIL => FALSE
    BY <1>1, <1>3, <1>6 DEF R!Within
  <2> QED
    BY <1>6, <2>1
<1>7. CASE at # NIL /\ R!Within(v) /\ R!Visit(v)
  BY <1>4, <1>7
<1>8. CASE at # NIL /\ ~R!Within(v) /\ R!Stop
  BY <1>3, <1>4, <1>8
<1> QED
  BY <1>5, <1>6, <1>7, <1>8

\* A number that is a step further is added to those seen.
LEMMA RangeVisits ==
    ASSUME RangeInv, UNCHANGED <<start, end, inclusive, on>>, on, NEW v \in Int, R!Visit(v),
           v # NIL, R!Within(v), v # at, v = Stride(Len(seen))
    PROVE  RangeInv'
<1>1. at' = v /\ seen' = Append(seen, v) /\ seen \in Seq(Int)
  BY DEF R!Visit, RangeInv, RangeFields, Strides, Reached, Stopped
<1>2. PICK len \in Nat : len = Len(seen)
  BY <1>1
<1>3. /\ seen' \in Seq(Int) /\ Len(seen') = len + 1 /\ seen' # <<>> /\ seen'[len + 1] = v
      /\ \A k \in 1..len : seen'[k] = seen[k]
  BY <1>1, <1>2
<1>4. \A k \in Int : Stride(k)' = Stride(k)
  BY DEF Stride
<1>5. ASSUME NEW k \in 1..len + 1 PROVE seen'[k] = Stride(k - 1)'
  <2>1. CASE k = len + 1
    <3>1. k - 1 = len /\ k - 1 \in Int
      BY <2>1
    <3> QED
      BY <1>2, <1>3, <1>4, <2>1, <3>1
  <2>2. CASE k # len + 1
    <3>1. k \in 1..len /\ k - 1 \in Int
      BY <2>2
    <3> QED
      BY <1>2, <1>3, <1>4, <3>1 DEF RangeInv, RangeFields, Strides, Reached, Stopped
  <2> QED
    BY <2>1, <2>2
<1>6. at' = Stride(Len(seen) - 1)' /\ R!Within(at)'
  <2>1. Len(seen') - 1 = len /\ len \in Int
    BY <1>3
  <2>2. at' = Stride(Len(seen) - 1)'
    BY <1>1, <1>2, <1>3, <2>1 DEF Stride
  <2>3. R!Within(at)'
    BY <1>1 DEF R!Within
  <2> QED
    BY <2>2, <2>3
<1>7. RangeFields'
  BY DEF RangeInv, RangeFields, R!Near, R!Exact
<1> QED
  BY <1>1, <1>3, <1>5, <1>6, <1>7 DEF RangeInv, Strides, Reached, Stopped

\* Each call of iterMore keeps the invariant.
LEMMA RangeMore == ASSUME RangeInv, R!Range_iterMore PROVE RangeInv'
<1>1. /\ UNCHANGED <<start, end, inclusive>> /\ on
      /\ start \in Int /\ end \in Int /\ inclusive \in BOOLEAN
      /\ RangeFields' /\ start # NIL
  BY ObjectsAssumption DEF RangeInv, RangeFields, R!Range_iterMore, R!Near, R!Exact
<1>2. PICK len \in Nat : len = Len(seen)
  BY DEF RangeInv, RangeFields, Strides, Reached, Stopped
<1>3. at = NIL => len = 0
  BY <1>2 DEF RangeInv, RangeFields, Strides, Reached, Stopped
<1>4. at # NIL => len >= 1 /\ at = Stride(len - 1) /\ R!Within(at)
  BY <1>2 DEF RangeInv, RangeFields, Strides, Reached, Stopped
<1>5. at # NIL => /\ at \in Int
                  /\ IF start <= end THEN at + 2 = Stride(len) ELSE at - 2 = Stride(len)
  BY <1>1, <1>4 DEF Stride
<1>6. CASE R!Stop
  <2>1. on' = FALSE /\ at' = at /\ seen' = seen
    BY <1>6 DEF R!Stop
  <2>2. ~R!Visit(start) /\ ~R!Visit(at) /\ ~R!Visit(at + 2) /\ ~R!Visit(at - 2)
    BY <1>1, <2>1 DEF R!Visit
  <2>3. \/ at = NIL /\ start = end /\ ~inclusive
        \/ at # NIL /\ IF start <= end THEN ~R!Within(at + 2) ELSE ~R!Within(at - 2)
    BY <2>2, RangeCases
  <2>4. RangeFields' /\ Strides' /\ Reached'
    BY <1>1, <2>1 DEF RangeInv, Strides, Reached, Stride, R!Within
  <2>5. Stopped'
    BY <1>1, <2>1, <2>3 DEF Stopped, R!Within
  <2> QED
    BY <2>4, <2>5 DEF RangeInv
<1>7. CASE at = NIL /\ R!Visit(start) /\ (start # end \/ inclusive)
  <2>1. R!Within(start)
    BY <1>1, <1>7 DEF R!Within
  <2>2. start = Stride(Len(seen)) /\ on' = on
    BY <1>1, <1>2, <1>3, <1>7 DEF Stride, R!Visit
  <2> QED
    BY <1>1, <1>7, <2>1, <2>2, RangeVisits
<1>8. CASE at # NIL /\ R!Visit(at)
  <2>1. UNCHANGED <<at, seen, on>>
    BY <1>8 DEF R!Visit
  <2> QED
    BY <1>1, <1>8, <2>1 DEF RangeInv, Strides, Reached, Stopped, Stride, R!Within
<1>9. CASE at # NIL /\ start <= end /\ R!Visit(at + 2) /\ R!Within(at + 2)
  <2>1. PICK v \in Int : v = at + 2 /\ v # at /\ v = Stride(Len(seen)) /\ on' = on
    BY <1>2, <1>5, <1>9 DEF R!Visit
  <2>2. v # NIL
    BY <2>1, ObjectsAssumption
  <2> QED
    BY <1>1, <1>9, <2>1, <2>2, RangeVisits
<1>10. CASE at # NIL /\ ~(start <= end) /\ R!Visit(at - 2) /\ R!Within(at - 2)
  <2>1. PICK v \in Int : v = at - 2 /\ v # at /\ v = Stride(Len(seen)) /\ on' = on
    BY <1>2, <1>5, <1>10 DEF R!Visit
  <2>2. v # NIL
    BY <2>1, ObjectsAssumption
  <2> QED
    BY <1>1, <1>10, <2>1, <2>2, RangeVisits
<1> QED
  BY <1>6, <1>7, <1>8, <1>9, <1>10, RangeCases

\* What holds of every range.
RangeOK == R!Near => RangeInv

\* So does every other step, which leaves the loop alone.
LEMMA RangeGoesOn == ASSUME RangeOK, [ObjectsNext]_all PROVE RangeOK'
<1>1. CASE RangeStep
  <2>1. R!Near' => R!Near
    BY <1>1 DEF RangeStep, R!Next, R!Range_iterMore, R!Near, R!Exact
  <2> QED
    BY <1>1, <2>1, RangeMore DEF RangeStep, R!Next, RangeOK
<1>2. CASE UNCHANGED rangeVars
  <2>1. R!Near' => R!Near
    BY <1>2 DEF rangeVars, R!Near, R!Exact
  <2>2. RangeInv => RangeInv'
    BY <1>2 DEF rangeVars, RangeInv, RangeFields, Strides, Reached, Stopped, Stride, R!Within, R!Near, R!Exact
  <2> QED
    BY <2>1, <2>2 DEF RangeOK
<1> QED
  BY <1>1, <1>2 DEF ObjectsNext, TableStep, ProtosStep, ListStep, FileStep, Finished, all

\* When the loop has stopped, it has seen what RangeIsExact says.
LEMMA RangeExact == RangeOK => RangeIsExact
<1> SUFFICES ASSUME RangeInv, ~on PROVE RangeIsExact
  BY DEF RangeOK, RangeIsExact, R!RangeIsExact
<1>1. PICK lim \in Nat, s \in Int, e \in Int :
        /\ lim = R!Exact /\ s = start /\ e = end /\ lim <= 2 * Limit /\ Limit \in Nat
        /\ -lim <= s /\ s <= lim /\ -lim <= e /\ e <= lim
  <2>1. RangeFields /\ start \in Int /\ end \in Int
    BY DEF RangeInv, RangeFields
  <2>2. R!Exact \in Nat /\ R!Exact <= 2 * Limit
    BY <2>1, RangeBounds
  <2> QED
    BY <2>1, <2>2, RangeBounds
<1>2. PICK len \in Nat : len = Len(seen)
  BY DEF RangeInv, Strides
<1>3. \A k \in 1..len : seen[k] = IF s <= e THEN s + 2 * (k - 1) ELSE s - 2 * (k - 1)
  BY <1>1, <1>2 DEF RangeInv, Strides, Stride
<1> DEFINE In(v) == R!Whole(v) /\ R!Covers(v)
\* A number is in the range if a loop that comes to it goes on.
<1>4. ASSUME NEW v \in Int
      PROVE  R!Within(v) <=> /\ IF s <= e THEN s <= v /\ v <= e ELSE e <= v /\ v <= s
                             /\ v = e => inclusive
  BY <1>1 DEF R!Within, RangeInv, RangeFields
\* It has seen all that are k strides from the start, and no more.
<1>5. ASSUME NEW k \in Nat, NEW v \in Int, v = IF s <= e THEN s + 2 * k ELSE s - 2 * k
      PROVE  k < len <=> R!Within(v)
  <2>1. CASE at = NIL
    <3>1. len = 0 /\ s = e /\ ~inclusive
      BY <1>1, <1>2, <2>1 DEF RangeInv, Reached, Stopped
    <3> QED
      BY <1>4, <1>5, <3>1
  <2>2. CASE at # NIL
    <3>1. PICK a \in Int : /\ a = at /\ len >= 1 /\ R!Within(a)
                           /\ a = IF s <= e THEN s + 2 * (len - 1) ELSE s - 2 * (len - 1)
      BY <1>1, <1>2, <2>2 DEF RangeInv, Reached, Stride
    <3>2. IF s <= e THEN ~R!Within(a + 2) ELSE ~R!Within(a - 2)
      BY <1>1, <2>2, <3>1 DEF RangeInv, Stopped
    <3>3. CASE s <= e
      <4>1. v <= a => R!Within(v)
        BY <1>4, <1>5, <3>1, <3>3
      <4>2. a + 2 <= v => ~R!Within(v)
        BY <1>4, <1>5, <3>1, <3>2, <3>3
      <4>3. (k < len => v <= a) /\ (~(k < len) => a + 2 <= v)
        BY <1>5, <3>1, <3>3
      <4> QED
        BY <4>1, <4>2, <4>3
    <3>4. CASE ~(s <= e)
      <4>1. a <= v => R!Within(v)
        BY <1>4, <1>5, <3>1, <3>4
      <4>2. v <= a - 2 => ~R!Within(v)
        BY <1>4, <1>5, <3>1, <3>2, <3>4
      <4>3. (k < len => a <= v) /\ (~(k < len) => v <= a - 2)
        BY <1>5, <3>1, <3>4
      <4> QED
        BY <4>1, <4>2, <4>3
    <3> QED
      BY <3>3, <3>4
  <2> QED
    BY <2>1, <2>2
<1>6. ASSUME NEW k \in 1..len PROVE seen[k] \in -R!Exact..R!Exact /\ In(seen[k])
  <2>1. PICK v \in Int : v = seen[k] /\ v = IF s <= e THEN s + 2 * (k - 1) ELSE s - 2 * (k - 1)
    BY <1>1, <1>3
  <2>2. k - 1 \in Nat /\ k - 1 < len
    BY <1>2
  <2> R!Within(v)
    BY <1>5, <2>1, <2>2
  <2>3. /\ IF s <= e THEN s <= v /\ v <= e ELSE e <= v /\ v <= s
        /\ v = e => inclusive
    BY <1>4, <2>2
  <2>4. k - 1 \in 0..2 * Limit /\ v \in -lim..lim
    BY <1>1, <2>1, <2>3
  <2>5. R!Whole(v)
    BY <1>1, <2>1, <2>4 DEF R!Whole
  <2>6. R!Covers(v)
    BY <1>1, <2>3 DEF R!Covers
  <2> QED
    BY <1>1, <2>1, <2>4, <2>5, <2>6
<1>7. ASSUME NEW v \in -R!Exact..R!Exact, In(v) PROVE \E k \in 1..len : v = seen[k]
  <2>1. PICK d \in 0..2 * Limit : v = s + 2 * d \/ v = s - 2 * d
    BY <1>1, <1>7 DEF R!Whole
  <2>2. v \in Int /\ ((s <= v /\ v <= e) \/ (e <= v /\ v <= s)) /\ (v = e => inclusive)
    BY <1>1, <1>7 DEF R!Covers
  <2>3. v = IF s <= e THEN s + 2 * d ELSE s - 2 * d
    BY <1>1, <2>1, <2>2
  <2>4. R!Within(v)
    BY <1>1, <1>4, <2>2
  <2>5. d \in Nat /\ d < len
    BY <1>5, <2>2, <2>3, <2>4
  <2>6. d + 1 \in 1..len /\ d + 1 - 1 = d
    BY <2>5
  <2>7. v = seen[d + 1]
    BY <1>3, <2>3, <2>6
  <2> QED
    BY <2>6, <2>7
<1>8. {seen[k] : k \in 1..len} = {v \in -R!Exact..R!Exact : In(v)}
  BY <1>6, <1>7
<1>9. ASSUME NEW k \in 1..len - 1
      PROVE  seen[k + 1] - seen[k] = IF start <= end THEN 2 ELSE -2
  <2>1. k \in 1..len /\ k + 1 \in 1..len
    OBVIOUS
  <2>2. k \in Int /\ k + 1 - 1 = k
    BY <2>1
  <2>3. /\ seen[k] = IF s <= e THEN s + 2 * (k - 1) ELSE s - 2 * (k - 1)
        /\ seen[k + 1] = IF s <= e THEN s + 2 * k ELSE s - 2 * k
    BY <1>3, <2>1, <2>2
  <2> QED
    BY <1>1, <2>2, <2>3
<1> QED
  BY <1>2, <1>8, <1>9 DEF RangeIsExact, R!RangeIsExact

\* A loop over a range of whole numbers up to 2^53, or halves up to 2^52, visits
\* exactly the numbers at whole distances from its start up to its end, in
\* order, if it ends, although Range.iterMore() knows no more than the number
\* before and computes with doubles.
THEOREM RangesAreExact == ObjectsSpec => []RangeIsExact
<1>1. ObjectsInit => RangeOK
  BY RangeInit DEF ObjectsInit, RangeOK
<1>2. RangeOK /\ [ObjectsNext]_all => RangeOK'
  BY RangeGoesOn
<1> QED
  BY <1>1, <1>2, RangeExact, PTL DEF ObjectsSpec

-----------------------------------------------------------------------------
(* Moving the cells of an array, one after the other.                      *)

\* Every nonempty set of the numbers up to N has a greatest one.
LEMMA Greatest ==
    ASSUME NEW N \in Nat, NEW s \in SUBSET (1..N), s # {}
    PROVE  L!Max(s) \in s /\ \A k \in s : k <= L!Max(s)
<1> DEFINE T == {N - k : k \in s}
<1>1. T \in SUBSET Nat /\ T # {}
  <2>1. \A k \in s : N - k \in Nat
    OBVIOUS
  <2> QED
    BY <2>1
<1>2. PICK t \in T : \A u \in T : t <= u
  BY <1>1, HasLeast
<1>3. PICK m \in s : t = N - m
  BY <1>2
<1>4. \A k \in s : m >= k
  BY <1>2, <1>3
<1> QED
  BY <1>4 DEF L!Max

\* vs is an array of c cells.
IsArray(vs, c) == vs = [j \in 0..c-1 |-> vs[j]]

\* An array after the cells numbered by s have been filled each from its
\* neighbour, one after the other.
Filled(vs, c, cell, d, s) ==
    [j \in 0..c-1 |-> IF \E k \in s : cell[k] = j THEN vs[j + d] ELSE vs[j]]

\* Filling one of them.
FillCell(ws, cell, d, m) == [ws EXCEPT ![cell[m]] = ws[cell[m] + d]]

\* None of the neighbours has been filled before.
InOrder(N, c, cell, d) ==
    /\ N \in Nat /\ c \in Nat /\ d \in {-1, 1} /\ cell \in [1..N -> 0..c-1]
    /\ \A k \in 1..N : cell[k] + d \in 0..c-1
    /\ \A k, m \in 1..N : k < m => cell[k] # cell[m] + d

\* To fill the cells of s is to fill those of all but the last, and then that.
LEMMA FillOne ==
    ASSUME NEW N, NEW c, NEW cell, NEW d, NEW vs, InOrder(N, c, cell, d),
           NEW s \in SUBSET (1..N), NEW m \in s, \A k \in s : k <= m
    PROVE  Filled(vs, c, cell, d, s) = FillCell(Filled(vs, c, cell, d, s \ {m}), cell, d, m)
<1> DEFINE ws == Filled(vs, c, cell, d, s \ {m})
           xs == [ws EXCEPT ![cell[m]] = ws[cell[m] + d]]
<1> USE DEF InOrder
<1>1. \A k \in s \ {m} : k \in 1..N /\ k < m
  OBVIOUS
<1>2. cell[m] \in 0..c-1 /\ cell[m] + d \in 0..c-1
  OBVIOUS
<1>3. ws[cell[m] + d] = vs[cell[m] + d]
  BY <1>1, <1>2 DEF Filled
<1>4. DOMAIN ws = 0..c-1 /\ xs = [j \in 0..c-1 |-> IF j = cell[m] THEN ws[cell[m] + d] ELSE ws[j]]
  BY DEF Filled
<1>5. ASSUME NEW j \in 0..c-1
      PROVE  (IF \E k \in s : cell[k] = j THEN vs[j + d] ELSE vs[j])
               = IF j = cell[m] THEN ws[cell[m] + d] ELSE ws[j]
  <2>1. CASE j = cell[m]
    BY <1>3, <2>1
  <2>2. CASE j # cell[m]
    <3>1. (\E k \in s : cell[k] = j) <=> (\E k \in s \ {m} : cell[k] = j)
      BY <2>2
    <3>2. ws[j] = IF \E k \in s \ {m} : cell[k] = j THEN vs[j + d] ELSE vs[j]
      BY DEF Filled
    <3> QED
      BY <2>2, <3>1, <3>2
  <2> QED
    BY <2>1, <2>2
<1>6. Filled(vs, c, cell, d, s) = xs
  <2> HIDE DEF ws, xs
  <2> QED
    BY <1>4, <1>5, ZenonT(60) DEF Filled
<1> QED
  BY <1>6 DEF FillCell

\* The recursion by which a fold fills them.
Fills(g, N, vs, cell, d) ==
    g = [s \in SUBSET (1..N) |->
            IF s = {} THEN vs
            ELSE FillCell(g[s \ {L!Max(s)}], cell, d, L!Max(s))]

\* The recursion has a solution, and that fills all of them.
LEMMA FillAll ==
    ASSUME NEW N, NEW c, NEW cell, NEW d, NEW vs, InOrder(N, c, cell, d), IsArray(vs, c)
    PROVE  /\ \E g : Fills(g, N, vs, cell, d)
           /\ \A g : Fills(g, N, vs, cell, d) => g[1..N] = Filled(vs, c, cell, d, 1..N)
<1>0. N \in Nat /\ c \in Nat /\ cell \in [1..N -> 0..c-1]
  BY DEF InOrder
<1>1. Filled(vs, c, cell, d, {}) = vs
  BY DEF Filled, IsArray
<1>2. ASSUME NEW s \in SUBSET (1..N), s # {}
      PROVE  /\ L!Max(s) \in s /\ \A k \in s : k <= L!Max(s)
             /\ Filled(vs, c, cell, d, s)
                  = FillCell(Filled(vs, c, cell, d, s \ {L!Max(s)}), cell, d, L!Max(s))
  <2>1. PICK m \in s : m = L!Max(s) /\ \A k \in s : k <= m
    BY <1>0, <1>2, Greatest
  <2>2. Filled(vs, c, cell, d, s) = FillCell(Filled(vs, c, cell, d, s \ {m}), cell, d, m)
    <3>1. \A k \in s : k <= m
      BY <2>1
    <3> QED
      BY <3>1, FillOne, SMT
  <2> QED
    BY <2>1, <2>2
<1> DEFINE h == [s \in SUBSET (1..N) |-> Filled(vs, c, cell, d, s)]
<1>3. Fills(h, N, vs, cell, d)
  <2>1. ASSUME NEW s \in SUBSET (1..N)
        PROVE  h[s] = IF s = {} THEN vs
                      ELSE FillCell(h[s \ {L!Max(s)}], cell, d, L!Max(s))
    <3>1. s \ {L!Max(s)} \in SUBSET (1..N)
      OBVIOUS
    <3> QED
      BY <1>1, <1>2, <3>1
  <2> HIDE DEF h
  <2>2. h = [s \in SUBSET (1..N) |-> h[s]]
    BY DEF h
  <2>3. h = [s \in SUBSET (1..N) |->
               IF s = {} THEN vs
               ELSE FillCell(h[s \ {L!Max(s)}], cell, d, L!Max(s))]
    BY <2>1, <2>2, Zenon
  <2> QED
    BY <2>3 DEF Fills
<1> HIDE DEF h
<1>4. ASSUME NEW f, Fills(f, N, vs, cell, d) PROVE f[1..N] = Filled(vs, c, cell, d, 1..N)
  <2>1. \A s \in SUBSET (1..N) :
          f[s] = IF s = {} THEN vs
                 ELSE FillCell(f[s \ {L!Max(s)}], cell, d, L!Max(s))
    BY <1>4 DEF Fills
  <2> DEFINE Bad == {b \in 0..N : \E s \in SUBSET (1..N) : s \subseteq 1..b /\ f[s] # Filled(vs, c, cell, d, s)}
  <2>2. ASSUME Bad # {} PROVE FALSE
    <3>1. PICK b \in 0..N : b \in Bad /\ \A e \in Bad : b <= e
      <4>1. Bad \in SUBSET Nat /\ Bad # {} /\ Bad \subseteq 0..N
        BY <1>0, <2>2
      <4> HIDE DEF Bad
      <4> QED
        BY <1>0, <4>1, HasLeast
    <3>2. PICK s \in SUBSET (1..N) : s \subseteq 1..b /\ f[s] # Filled(vs, c, cell, d, s)
      BY <3>1
    <3>3. s # {}
      BY <1>1, <2>1, <3>2
    <3>4. PICK m \in s : m = L!Max(s) /\ \A k \in s : k <= m
      BY <1>2, <3>3
    <3>5. s \ {m} \in SUBSET (1..N) /\ s \ {m} \subseteq 1..(m-1) /\ m - 1 \in 0..N /\ m - 1 < b
      <4>1. m \in 1..N /\ m \in 1..b
        BY <3>2
      <4>2. \A k \in s \ {m} : k \in 1..(m-1)
        BY <1>0, <3>4, <4>1
      <4> QED
        BY <1>0, <4>1, <4>2
    <3>6. m - 1 \notin Bad
      <4> HIDE DEF Bad
      <4> QED
        BY <1>0, <3>1, <3>5
    <3>7. f[s \ {m}] = Filled(vs, c, cell, d, s \ {m})
      BY <3>5, <3>6
    <3>8. f[s] = FillCell(f[s \ {m}], cell, d, m)
      BY <2>1, <3>3, <3>4
    <3>9. Filled(vs, c, cell, d, s) = FillCell(Filled(vs, c, cell, d, s \ {m}), cell, d, m)
      BY <1>2, <3>3, <3>4
    <3> QED
      BY <3>2, <3>7, <3>8, <3>9
  <2>3. f[1..N] = Filled(vs, c, cell, d, 1..N)
    <3>1. N \in 0..N /\ 1..N \in SUBSET (1..N)
      BY <1>0
    <3> QED
      BY <2>2, <3>1
  <2> QED
    BY <2>3
<1> QED
  BY <1>3, <1>4

\* What the loop does that moves cells up, from the last to the first.
LEMMA MovedUpCells ==
    ASSUME NEW c \in Nat, NEW vs, IsArray(vs, c),
           NEW from \in Nat, NEW to \in Nat, from <= to, to < c
    PROVE  L!MovedUp(vs, from, to) = [j \in 0..c-1 |-> IF from < j /\ j <= to THEN vs[j - 1] ELSE vs[j]]
<1> DEFINE N == to - from
           cell == [k \in 1..N |-> to - k + 1]
           Folds(g) == g = [s \in SUBSET (DOMAIN cell) |->
             IF s = {} THEN vs
             ELSE [g[s \ {L!Max(s)}] EXCEPT ![cell[L!Max(s)]] = g[s \ {L!Max(s)}][cell[L!Max(s)] - 1]]]
<1>1. N \in Nat /\ cell \in [1..N -> 0..c-1] /\ DOMAIN cell = 1..N
  OBVIOUS
<1>2. \A k \in 1..N : cell[k] + (-1) \in 0..c-1 /\ cell[k] - 1 = cell[k] + (-1)
  OBVIOUS
<1>3. \A k, m \in 1..N : k < m => cell[k] # cell[m] + (-1)
  OBVIOUS
<1>4. /\ \E g : Fills(g, N, vs, cell, -1)
      /\ \A g : Fills(g, N, vs, cell, -1) => g[1..N] = Filled(vs, c, cell, -1, 1..N)
  <2>1. InOrder(N, c, cell, -1)
    <3> HIDE DEF N, cell
    <3> QED
      BY <1>1, <1>2, <1>3 DEF InOrder
  <2> HIDE DEF N, cell
  <2> QED
    BY <2>1, FillAll, ZenonT(60)
<1>5. L!MovedUp(vs, from, to) = (CHOOSE g : Folds(g))[DOMAIN cell]
  BY Zenon DEF L!MovedUp, L!FoldLeft, L!MapThenFoldSet
<1>6. ASSUME NEW g PROVE Fills(g, N, vs, cell, -1) <=> Folds(g)
  <2>1. ASSUME NEW s \in SUBSET (1..N), s # {} PROVE cell[L!Max(s)] - 1 = cell[L!Max(s)] + (-1)
    BY <1>1, <1>2, <2>1, Greatest
  <2> HIDE DEF N, cell
  <2> QED
    BY <1>1, <2>1 DEF Fills, FillCell
<1>7. L!MovedUp(vs, from, to) = Filled(vs, c, cell, -1, 1..N)
  <2> HIDE DEF N, cell, Folds
  <2> DEFINE f == CHOOSE g : Folds(g)
  <2>1. Folds(f)
    BY <1>4, <1>6, Zenon
  <2>2. f[1..N] = Filled(vs, c, cell, -1, 1..N)
    BY <1>4, <1>6, <2>1, Zenon
  <2> QED
    BY <1>1, <1>5, <2>2, Zenon
<1>8. ASSUME NEW j \in 0..c-1
      PROVE  (IF \E k \in 1..N : cell[k] = j THEN vs[j + (-1)] ELSE vs[j])
               = IF from < j /\ j <= to THEN vs[j - 1] ELSE vs[j]
  <2>1. CASE from < j /\ j <= to
    <3>1. to - j + 1 \in 1..N /\ cell[to - j + 1] = j
      BY <2>1
    <3>2. j + (-1) = j - 1
      OBVIOUS
    <3> HIDE DEF N, cell
    <3> QED
      BY <2>1, <3>1, <3>2, Zenon
  <2>2. CASE ~(from < j /\ j <= to)
    <3>1. ~\E k \in 1..N : cell[k] = j
      BY <2>2
    <3> HIDE DEF N, cell
    <3> QED
      BY <2>2, <3>1, Zenon
  <2> QED
    BY <2>1, <2>2
<1> HIDE DEF N, cell
<1> QED
  BY <1>7, <1>8, Zenon DEF Filled

\* What the loop does that moves cells down, from the first to the last.
LEMMA MovedDownCells ==
    ASSUME NEW c \in Nat, NEW vs, IsArray(vs, c),
           NEW from \in Nat, NEW to \in Nat, from <= to, to < c
    PROVE  L!MovedDown(vs, from, to) = [j \in 0..c-1 |-> IF from <= j /\ j < to THEN vs[j + 1] ELSE vs[j]]
<1> DEFINE N == to - from
           cell == [k \in 1..N |-> from + k - 1]
           Folds(g) == g = [s \in SUBSET (DOMAIN cell) |->
             IF s = {} THEN vs
             ELSE [g[s \ {L!Max(s)}] EXCEPT ![cell[L!Max(s)]] = g[s \ {L!Max(s)}][cell[L!Max(s)] + 1]]]
<1>1. N \in Nat /\ cell \in [1..N -> 0..c-1] /\ DOMAIN cell = 1..N
  OBVIOUS
<1>2. \A k \in 1..N : cell[k] + 1 \in 0..c-1
  OBVIOUS
<1>3. \A k, m \in 1..N : k < m => cell[k] # cell[m] + 1
  OBVIOUS
<1>4. /\ \E g : Fills(g, N, vs, cell, 1)
      /\ \A g : Fills(g, N, vs, cell, 1) => g[1..N] = Filled(vs, c, cell, 1, 1..N)
  <2>1. InOrder(N, c, cell, 1)
    <3> HIDE DEF N, cell
    <3> QED
      BY <1>1, <1>2, <1>3 DEF InOrder
  <2> HIDE DEF N, cell
  <2> QED
    BY <2>1, FillAll
<1>5. L!MovedDown(vs, from, to) = (CHOOSE g : Folds(g))[DOMAIN cell]
  BY Zenon DEF L!MovedDown, L!FoldLeft, L!MapThenFoldSet
<1>6. ASSUME NEW g PROVE Fills(g, N, vs, cell, 1) <=> Folds(g)
  <2> HIDE DEF N, cell
  <2> QED
    BY <1>1 DEF Fills, FillCell
<1>7. L!MovedDown(vs, from, to) = Filled(vs, c, cell, 1, 1..N)
  <2> HIDE DEF N, cell, Folds
  <2> DEFINE f == CHOOSE g : Folds(g)
  <2>1. Folds(f)
    BY <1>4, <1>6, Zenon
  <2>2. f[1..N] = Filled(vs, c, cell, 1, 1..N)
    BY <1>4, <1>6, <2>1, Zenon
  <2> QED
    BY <1>1, <1>5, <2>2, Zenon
<1>8. ASSUME NEW j \in 0..c-1
      PROVE  (IF \E k \in 1..N : cell[k] = j THEN vs[j + 1] ELSE vs[j])
               = IF from <= j /\ j < to THEN vs[j + 1] ELSE vs[j]
  <2>1. CASE from <= j /\ j < to
    <3>1. j - from + 1 \in 1..N /\ cell[j - from + 1] = j
      BY <2>1
    <3> HIDE DEF N, cell
    <3> QED
      BY <2>1, <3>1, Zenon
  <2>2. CASE ~(from <= j /\ j < to)
    <3>1. ~\E k \in 1..N : cell[k] = j
      BY <2>2
    <3> HIDE DEF N, cell
    <3> QED
      BY <2>2, <3>1, Zenon
  <2> QED
    BY <2>1, <2>2
<1> HIDE DEF N, cell
<1> QED
  BY <1>7, <1>8, Zenon DEF Filled

-----------------------------------------------------------------------------
(* Lists.                                                                  *)

\* The array has `cells' cells, and those in use hold elements.
ArrayOK == /\ size \in Nat /\ cells \in Nat /\ size <= cells
           /\ IsArray(values, cells)
           /\ \A j \in 0..size-1 : values[j] \in Elements

\* Unless it is small, at least half of it is in use.
HalfFull == cells > MinCapacity => 2 * size >= cells

\* What a loop has seen, as long as its body has only added to the list, is
\* the list up to where it is.
LoopOK == /\ loop \in [on : BOOLEAN, iter : Int \cup {NIL}, seen : Seq(Elements), undisturbed : BOOLEAN]
          /\ ~loop.on => loop = L!NoLoop

SeenSoFar == loop.on /\ loop.undisturbed =>
               /\ Len(loop.seen) <= size
               /\ \A k \in 1..Len(loop.seen) : loop.seen[k] = values[k - 1]
               /\ IF loop.iter = NIL THEN Len(loop.seen) = 0
                  ELSE Len(loop.seen) >= 1 /\ loop.iter = 2 * (Len(loop.seen) - 1)

\* List.get has returned an element or nil.
ReplyOK == got \in Elements \cup {NIL}

ListInv == ArrayOK /\ HalfFull /\ LoopOK /\ SeenSoFar /\ ReplyOK

\* What is known of the constants.
LEMMA ListFacts == MinCapacity \in Nat /\ MinCapacity >= 2 /\ MaxSize \in Nat /\ NIL \notin Int
BY TableAssumption, ObjectsAssumption

\* At first the list is empty.
LEMMA ListInit == L!Init => ListInv /\ L!ImplementsSequence!Init
<1> SUFFICES ASSUME L!Init PROVE ListInv /\ L!ImplementsSequence!Init
  OBVIOUS
<1>1. size = 0 /\ cells = 0 /\ values = <<>> /\ got = NIL /\ loop = L!NoLoop
  BY DEF L!Init
<1>2. <<>> = [j \in 0..0-1 |-> values[j]]
  BY <1>1
<1>3. L!Contents = <<>>
  BY <1>1 DEF L!Contents
<1>4. L!NoLoop \in [on : BOOLEAN, iter : Int \cup {NIL}, seen : Seq(Elements), undisturbed : BOOLEAN] /\ ~L!NoLoop.on
  BY DEF L!NoLoop
<1> QED
  BY <1>1, <1>2, <1>3, <1>4, ListFacts DEF ListInv, ArrayOK, HalfFull, LoopOK, SeenSoFar, ReplyOK, IsArray,
     L!ImplementsSequence!Init

\* An index stands for the place that the sequence has for it, or for none.
LEMMA PlaceOfIndex ==
    ASSUME NEW p \in Int, NEW len \in Nat, NEW i, i = L!value_to_index(p, len)
    PROVE  /\ i = -1 \/ i \in 0..len-1
           /\ i = -1 <=> L!ImplementsSequence!Places(p, len) = {}
           /\ i # -1 => /\ L!ImplementsSequence!Places(p, len) = {i + 1}
                        /\ (CHOOSE k \in L!ImplementsSequence!Places(p, len) : TRUE) = i + 1
<1> DEFINE ps == L!ImplementsSequence!Places(p, len)
           j == IF p < 0 THEN p \div 2 + len ELSE p \div 2
<1>1. ps = {k \in 1..len : p = 2 * (k - 1) \/ p = 2 * (k - 1 - len)}
  BY DEF L!ImplementsSequence!Places
<1>2. i = IF L!is_integer(p) /\ j >= 0 /\ j < len THEN j ELSE -1
  BY DEF L!value_to_index
<1>3. j \in Int
  OBVIOUS
<1>4. CASE i # -1
  <2>1. p % 2 = 0 /\ j >= 0 /\ j < len /\ i = j
    BY <1>2, <1>4 DEF L!is_integer
  <2>2. p = 2 * (p \div 2)
    BY <2>1
  <2>3. p = 2 * j \/ p = 2 * (j - len)
    BY <2>2
  <2>4. \A k \in 1..len : p = 2 * (k - 1) \/ p = 2 * (k - 1 - len) => k = j + 1
    BY <1>3, <2>1, <2>2
  <2>5. ps = {i + 1}
    BY <1>1, <1>3, <2>1, <2>3, <2>4
  <2> QED
    BY <1>3, <1>4, <2>1, <2>5
<1>5. CASE i = -1
  <2>1. ~(p % 2 = 0) \/ ~(j >= 0) \/ ~(j < len)
    BY <1>2, <1>3, <1>5 DEF L!is_integer
  <2>2. ASSUME NEW k \in 1..len, p = 2 * (k - 1) \/ p = 2 * (k - 1 - len) PROVE FALSE
    BY <2>1, <2>2
  <2> QED
    BY <1>1, <1>5, <2>2
<1> QED
  BY <1>4, <1>5

\* objlist_insert() puts one value in and moves those above it up.
LEMMA InsertKept ==
    ASSUME ArrayOK, HalfFull, NEW i \in 0..size, NEW v \in Elements, L!objlist_insert(i, v)
    PROVE  /\ ArrayOK' /\ HalfFull' /\ size' = size + 1
           /\ \A j \in 0..size : values'[j] = IF j < i THEN values[j] ELSE IF j = i THEN v ELSE values[j - 1]
<1> DEFINE c == IF size + 1 > cells THEN L!GROW_CAPACITY(cells) ELSE cells
           rs == L!Resized(values, c)
           ms == L!MovedUp(rs, i, size)
<1>1. size \in Nat /\ cells \in Nat /\ size <= cells /\ i \in Nat /\ i <= size
  BY DEF ArrayOK
<1>2. c \in Nat /\ size < c /\ cells <= c /\ (c > MinCapacity => 2 * (size + 1) >= c)
  BY <1>1, ListFacts DEF L!GROW_CAPACITY, HalfFull
<1>3. /\ rs = [j \in 0..c-1 |-> rs[j]]
      /\ \A j \in 0..size-1 : rs[j] = values[j]
  BY <1>1, <1>2 DEF L!Resized, ArrayOK, IsArray
<1> HIDE DEF rs
<1>4. ms = [j \in 0..c-1 |-> IF i < j /\ j <= size THEN rs[j - 1] ELSE rs[j]]
  <2> HIDE DEF c
  <2>1. IsArray(rs, c)
    BY <1>3 DEF IsArray
  <2> QED
    BY <1>1, <1>2, <2>1, MovedUpCells
<1>5. size' = size + 1 /\ cells' = c /\ values' = [ms EXCEPT ![i] = v]
  BY DEF L!objlist_insert, rs
<1> HIDE DEF c, ms
<1>6. i \in 0..c-1 /\ 0..size \subseteq 0..c-1
  BY <1>1, <1>2
<1>7. values' = [j \in 0..c-1 |-> IF j = i THEN v ELSE IF i < j /\ j <= size THEN rs[j - 1] ELSE rs[j]]
  BY <1>4, <1>5
<1>8. ASSUME NEW j \in 0..size
      PROVE  values'[j] = IF j < i THEN values[j] ELSE IF j = i THEN v ELSE values[j - 1]
  <2>1. values'[j] = IF j = i THEN v ELSE IF i < j /\ j <= size THEN rs[j - 1] ELSE rs[j]
    BY <1>6, <1>7
  <2>2. i < j => j - 1 \in 0..size-1
    BY <1>1
  <2>3. j < i => j \in 0..size-1
    BY <1>1
  <2>4. j < i \/ j = i \/ i < j
    BY <1>1
  <2>5. \A m \in 0..size-1 : rs[m] = values[m]
    BY <1>3
  <2>6. CASE j < i
    <3>1. values'[j] = rs[j]
      BY <1>1, <2>1, <2>6
    <3> QED
      BY <2>3, <2>5, <2>6, <3>1
  <2>7. CASE j = i
    BY <1>1, <2>1, <2>7
  <2>8. CASE i < j
    <3>1. values'[j] = rs[j - 1]
      BY <1>1, <2>1, <2>8
    <3>2. ~(j < i) /\ j # i
      BY <1>1, <2>8
    <3> QED
      BY <2>2, <2>5, <2>8, <3>1, <3>2
  <2> QED
    BY <2>4, <2>6, <2>7, <2>8
<1>9. \A j \in 0..size : values'[j] \in Elements
  <2>1. ASSUME NEW j \in 0..size PROVE values'[j] \in Elements
    <3>1. j < i => j \in 0..size-1
      BY <1>1
    <3>2. j < i \/ j = i \/ j - 1 \in 0..size-1
      BY <1>1
    <3> QED
      BY <1>8, <3>1, <3>2 DEF ArrayOK
  <2> QED
    BY <2>1
<1>10. IsArray(values, cells)'
  <2>1. IsArray(values', cells')
    BY <1>5, <1>7 DEF IsArray
  <2> QED
    BY <2>1 DEF IsArray
<1>11. ArrayOK'
  <2>1. size' - 1 = size
    BY <1>1, <1>5
  <2> QED
    BY <1>1, <1>2, <1>5, <1>9, <1>10, <2>1 DEF ArrayOK
<1>12. HalfFull'
  BY <1>1, <1>2, <1>5 DEF HalfFull
<1> QED
  BY <1>5, <1>8, <1>11, <1>12

\* objlist_del() moves the values above the one that goes down.
LEMMA DeleteKept ==
    ASSUME ArrayOK, HalfFull, NEW i \in 0..size-1, L!objlist_del(i)
    PROVE  /\ ArrayOK' /\ HalfFull' /\ size' = size - 1
           /\ \A j \in 0..size-2 : values'[j] = IF j < i THEN values[j] ELSE values[j + 1]
<1> DEFINE len == size - 1
           ms == L!MovedDown(values, i, len)
           less == cells > MinCapacity /\ 2 * len < cells
           c == IF less THEN L!SHRINK_CAPACITY(cells) ELSE cells
<1>1. size \in Nat /\ cells \in Nat /\ size <= cells /\ i \in Nat /\ i < size
  BY DEF ArrayOK
<1>2. c \in Nat /\ len \in Nat /\ len <= c /\ len < cells /\ (c > MinCapacity => 2 * len >= c)
  BY <1>1, ListFacts DEF L!SHRINK_CAPACITY, HalfFull
<1>3. ms = [j \in 0..cells-1 |-> IF i <= j /\ j < len THEN values[j + 1] ELSE values[j]]
  BY <1>1, <1>2, MovedDownCells, SMTT(30) DEF ArrayOK
<1>4. size' = len /\ cells' = c /\ values' = L!Resized(ms, c)
  BY DEF L!objlist_del
<1> HIDE DEF c, ms
<1>5. values' = [j \in 0..c-1 |-> IF j \in 0..cells-1 THEN ms[j] ELSE L!Junk]
  BY <1>3, <1>4 DEF L!Resized
<1>6. ASSUME NEW j \in 0..size-2
      PROVE  values'[j] = IF j < i THEN values[j] ELSE values[j + 1]
  <2>1. j \in 0..c-1 /\ j \in 0..cells-1 /\ j < len
    BY <1>1, <1>2
  <2>2. values'[j] = IF i <= j THEN values[j + 1] ELSE values[j]
    BY <1>3, <1>5, <2>1
  <2> QED
    BY <1>1, <2>1, <2>2
<1>7. ASSUME NEW j \in 0..size'-1 PROVE values'[j] \in Elements
  <2>1. j \in 0..size-2 /\ j \in 0..size-1 /\ j + 1 \in 0..size-1
    BY <1>1, <1>4
  <2> QED
    BY <1>6, <2>1 DEF ArrayOK
<1>8. IsArray(values, cells)'
  <2>1. IsArray(values', cells')
    BY <1>4, <1>5 DEF IsArray
  <2> QED
    BY <2>1 DEF IsArray
<1>9. ArrayOK'
  BY <1>1, <1>2, <1>4, <1>7, <1>8 DEF ArrayOK
<1>10. HalfFull'
  BY <1>2, <1>4 DEF HalfFull
<1> QED
  BY <1>4, <1>6, <1>9, <1>10

\* t is s with v put in at k.
IsInserted(t, S, s, k, v) ==
    /\ t \in Seq(S) /\ Len(t) = Len(s) + 1
    /\ \A m \in 1..Len(s)+1 : t[m] = IF m < k THEN s[m] ELSE IF m = k THEN v ELSE s[m - 1]

\* What the sequence operators of IndexedList give.
LEMMA InsertAtIs ==
    ASSUME NEW S, NEW s \in Seq(S), NEW k \in 1..Len(s)+1, NEW v \in S
    PROVE  IsInserted(L!ImplementsSequence!InsertAt(s, k, v), S, s, k, v)
<1> DEFINE a == SubSeq(s, 1, k - 1)
           b == SubSeq(s, k, Len(s))
           t == a \o <<v>> \o b
<1>1. /\ a \in Seq(S) /\ Len(a) = k - 1 /\ \A m \in 1..k-1 : a[m] = s[m]
  OBVIOUS
<1>2. /\ b \in Seq(S) /\ Len(b) = Len(s) - k + 1 /\ \A m \in 1..Len(s)-k+1 : b[m] = s[k + m - 1]
  OBVIOUS
<1> HIDE DEF a, b
<1>3. /\ t \in Seq(S) /\ Len(t) = Len(s) + 1
  BY <1>1, <1>2
<1>4. ASSUME NEW m \in 1..Len(s)+1
      PROVE  t[m] = IF m < k THEN s[m] ELSE IF m = k THEN v ELSE s[m - 1]
  <2>1. CASE m < k
    BY <1>1, <1>2, <2>1
  <2>2. CASE m = k
    BY <1>1, <1>2, <2>2
  <2>3. CASE k < m
    <3>1. t[m] = b[m - k] /\ m - k \in 1..Len(s)-k+1
      BY <1>1, <1>2, <2>3
    <3>2. b[m - k] = s[m - 1] /\ ~(m < k) /\ m # k
      <4>1. k + (m - k) - 1 = m - 1
        OBVIOUS
      <4> QED
        BY <1>2, <2>3, <3>1, <4>1
    <3> QED
      BY <3>1, <3>2
  <2>4. m < k \/ m = k \/ k < m
    OBVIOUS
  <2> QED
    BY <2>1, <2>2, <2>3, <2>4
<1> QED
  BY <1>3, <1>4 DEF L!ImplementsSequence!InsertAt, IsInserted, a, b

LEMMA RemoveAtIs ==
    ASSUME NEW S, NEW s \in Seq(S), NEW k \in 1..Len(s)
    PROVE  /\ L!ImplementsSequence!RemoveAt(s, k) \in Seq(S)
           /\ Len(L!ImplementsSequence!RemoveAt(s, k)) = Len(s) - 1
           /\ \A m \in 1..Len(s)-1 : L!ImplementsSequence!RemoveAt(s, k)[m]
                = IF m < k THEN s[m] ELSE s[m + 1]
<1> DEFINE a == SubSeq(s, 1, k - 1)
           b == SubSeq(s, k + 1, Len(s))
           t == a \o b
<1>1. /\ a \in Seq(S) /\ Len(a) = k - 1 /\ \A m \in 1..k-1 : a[m] = s[m]
  OBVIOUS
<1>2. /\ b \in Seq(S) /\ Len(b) = Len(s) - k /\ \A m \in 1..Len(s)-k : b[m] = s[k + m]
  OBVIOUS
<1> HIDE DEF a, b
<1>3. /\ t \in Seq(S) /\ Len(t) = Len(s) - 1
  <2>1. t \in Seq(S) /\ Len(t) = Len(a) + Len(b)
    BY <1>1, <1>2, ConcatProperties
  <2>2. Len(s) \in Nat
    OBVIOUS
  <2> QED
    BY <1>1, <1>2, <2>1, <2>2
<1>4. ASSUME NEW m \in 1..Len(s)-1
      PROVE  t[m] = IF m < k THEN s[m] ELSE s[m + 1]
  <2>1. CASE m < k
    BY <1>1, <1>2, <2>1
  <2>2. CASE ~(m < k)
    <3>1. t[m] = b[m - k + 1] /\ m - k + 1 \in 1..Len(s)-k
      BY <1>1, <1>2, <2>2
    <3> QED
      BY <1>2, <2>2, <3>1
  <2> QED
    BY <2>1, <2>2
<1> QED
  BY <1>3, <1>4 DEF L!ImplementsSequence!RemoveAt, a, b

-----------------------------------------------------------------------------
(* The steps of a list, and those of the sequence it is.                   *)

SeqNext == L!ImplementsSequence!Next
SeqVars == L!ImplementsSequence!vars

\* The contents of an array.
LEMMA ContentsAre ==
    ASSUME ArrayOK
    PROVE  /\ L!Contents \in Seq(Elements) /\ Len(L!Contents) = size
           /\ \A k \in 1..size : L!Contents[k] = values[k - 1]
<1>1. size \in Nat
  BY DEF ArrayOK
<1>2. ASSUME NEW k \in 1..size PROVE values[k - 1] \in Elements
  <2>1. k - 1 \in 0..size-1
    BY <1>1
  <2> QED
    BY <2>1 DEF ArrayOK
<1> QED
  BY <1>1, <1>2 DEF L!Contents

\* What they are after a step.
LEMMA ContentsBecome ==
    ASSUME ArrayOK', NEW t \in Seq(Elements), NEW len \in Nat, size' = len, Len(t) = len,
           \A k \in 1..len : values'[k - 1] = t[k]
    PROVE  L!Contents' = t
<1>1. L!Contents' = [k \in 1..len |-> values'[k - 1]]
  BY DEF L!Contents
<1>2. t = [k \in 1..len |-> t[k]]
  OBVIOUS
<1> QED
  BY <1>1, <1>2

\* A change that is not an addition: what a loop has seen is dropped.
LEMMA DisturbKept ==
    ASSUME LoopOK, L!Disturb PROVE LoopOK' /\ SeenSoFar'
<1>1. loop' = [loop EXCEPT !.undisturbed = ~loop.on, !.seen = <<>>]
  BY DEF L!Disturb
<1>2. /\ loop \in [on : BOOLEAN, iter : Int \cup {NIL}, seen : Seq(Elements), undisturbed : BOOLEAN]
      /\ <<>> \in Seq(Elements)
  BY DEF LoopOK
<1>3. CASE loop.on
  <2>1. loop' = [loop EXCEPT !.undisturbed = FALSE, !.seen = <<>>]
    BY <1>1, <1>3
  <2>2. /\ loop' \in [on : BOOLEAN, iter : Int \cup {NIL}, seen : Seq(Elements), undisturbed : BOOLEAN]
        /\ loop'.on /\ ~loop'.undisturbed
    BY <1>2, <1>3, <2>1
  <2> QED
    BY <2>2 DEF LoopOK, SeenSoFar
<1>4. CASE ~loop.on
  <2>1. loop' = [loop EXCEPT !.undisturbed = TRUE, !.seen = <<>>] /\ loop = L!NoLoop
    BY <1>1, <1>4 DEF LoopOK
  <2>2. loop' = loop
    <3>1. loop = [on |-> FALSE, iter |-> NIL, seen |-> <<>>, undisturbed |-> TRUE]
      BY <2>1 DEF L!NoLoop
    <3>2. loop.undisturbed = TRUE /\ loop.seen = <<>>
      BY <3>1
    <3> QED
      BY <1>2, <2>1, <3>2
  <2> QED
    BY <1>4, <2>2 DEF LoopOK, SeenSoFar
<1> QED
  BY <1>3, <1>4

\* Each native, in turn, changes the contents as IndexedList says.
LEMMA NewKept ==
    ASSUME ListInv, NEW args \in L!BoundedSeq(Elements, 3), L!List_new(args)
    PROVE  ListInv' /\ SeqNext
<1>1. PICK m \in 0..3 : args \in [1..m -> Elements]
  BY DEF L!BoundedSeq, L!SeqOf
<1>2. m \in Nat /\ args \in Seq(Elements) /\ Len(args) = m
  BY <1>1
<1>3. /\ size' = m /\ cells' = m /\ values' = [i \in 0..m-1 |-> args[i + 1]]
      /\ UNCHANGED <<got, loop>> /\ ~loop.on
  BY <1>2 DEF L!List_new, L!objlist_new
<1>4. ASSUME NEW j \in 0..m-1 PROVE values'[j] \in Elements
  <2>1. j + 1 \in 1..m
    BY <1>2
  <2> QED
    BY <1>1, <1>3, <2>1
<1>5. ArrayOK' /\ HalfFull'
  BY <1>2, <1>3, <1>4 DEF ArrayOK, IsArray, HalfFull
<1>6. L!Contents' = args
  <2>1. ASSUME NEW k \in 1..m PROVE values'[k - 1] = args[k]
    <3>1. k - 1 \in 0..m-1 /\ k - 1 + 1 = k
      BY <1>2
    <3> QED
      BY <1>3, <3>1
  <2> QED
    BY <1>2, <1>3, <1>5, <2>1, ContentsBecome
<1>7. SeqNext
  <2>1. args \in L!ImplementsSequence!BoundedSeq(Elements, 3)
    BY DEF L!BoundedSeq, L!SeqOf, L!ImplementsSequence!BoundedSeq, L!ImplementsSequence!SeqOf
  <2>2. L!ImplementsSequence!New(args)
    BY <1>3, <1>6 DEF L!ImplementsSequence!New
  <2> QED
    BY <2>1, <2>2 DEF SeqNext, L!ImplementsSequence!Next
<1> QED
  BY <1>3, <1>5, <1>7 DEF ListInv, LoopOK, SeenSoFar, ReplyOK

LEMMA AddKept ==
    ASSUME ListInv, NEW v \in Elements, L!List_add(v)
    PROVE  ListInv' /\ SeqNext
<1>1. size \in Nat /\ size \in 0..size /\ UNCHANGED <<got, loop>> /\ L!objlist_insert(size, v)
  BY DEF L!List_add, ListInv, ArrayOK
<1>2. /\ ArrayOK' /\ HalfFull' /\ size' = size + 1
      /\ \A j \in 0..size : values'[j] = IF j < size THEN values[j] ELSE IF j = size THEN v ELSE values[j - 1]
  BY <1>1, InsertKept DEF ListInv
<1>3. values'[size] = v /\ \A j \in 0..size-1 : values'[j] = values[j]
  BY <1>1, <1>2
<1>4. L!Contents \in Seq(Elements) /\ Len(L!Contents) = size /\ \A k \in 1..size : L!Contents[k] = values[k - 1]
  BY ContentsAre DEF ListInv
<1>5. L!Contents' = Append(L!Contents, v)
  <2> DEFINE t == Append(L!Contents, v)
  <2>1. t \in Seq(Elements) /\ Len(t) = size + 1 /\ t[size + 1] = v /\ \A k \in 1..size : t[k] = L!Contents[k]
    BY <1>1, <1>4
  <2>2. ASSUME NEW k \in 1..size + 1 PROVE values'[k - 1] = t[k]
    <3>1. CASE k = size + 1
      BY <1>1, <1>3, <2>1, <3>1
    <3>2. CASE k # size + 1
      <4>1. k \in 1..size /\ k - 1 \in 0..size-1
        BY <1>1, <3>2
      <4> QED
        BY <1>3, <1>4, <2>1, <4>1
    <3> QED
      BY <3>1, <3>2
  <2>3. size + 1 \in Nat
    BY <1>1
  <2> HIDE DEF t
  <2>4. L!Contents' = t
    BY <1>2, <2>1, <2>2, <2>3, ContentsBecome
  <2> QED
    BY <2>4 DEF t
<1>6. SeqNext
  BY <1>1, <1>5 DEF SeqNext, L!ImplementsSequence!Next, L!ImplementsSequence!Add
<1>7. SeenSoFar'
  <2> SUFFICES ASSUME loop.on, loop.undisturbed PROVE SeenSoFar'
    BY <1>1 DEF SeenSoFar
  <2>1. PICK len \in Nat : len = Len(loop.seen)
    BY DEF ListInv, LoopOK
  <2>2. /\ len <= size
        /\ \A k \in 1..len : loop.seen[k] = values[k - 1]
        /\ IF loop.iter = NIL THEN len = 0 ELSE len >= 1 /\ loop.iter = 2 * (len - 1)
    BY <2>1 DEF ListInv, SeenSoFar
  <2>3. ASSUME NEW k \in 1..len PROVE loop.seen[k] = values'[k - 1]
    <3>1. k - 1 \in 0..size-1
      BY <1>1, <2>2
    <3> QED
      BY <1>3, <2>2, <3>1
  <2> QED
    BY <1>1, <1>2, <2>1, <2>2, <2>3 DEF SeenSoFar
<1> QED
  BY <1>1, <1>2, <1>6, <1>7 DEF ListInv, LoopOK, ReplyOK

LEMMA GetKept ==
    ASSUME ListInv, NEW p \in L!Numbers, L!List_get(p)
    PROVE  ListInv' /\ SeqNext
<1> DEFINE i == L!value_to_index(p, size)
           ps == L!ImplementsSequence!Places(p, size)
<1>1. p \in Int /\ size \in Nat
  BY ListFacts DEF L!Numbers, ListInv, ArrayOK
<1>2. /\ i = -1 \/ i \in 0..size-1
      /\ i = -1 <=> ps = {}
      /\ i # -1 => (CHOOSE k \in ps : TRUE) = i + 1
  BY <1>1, PlaceOfIndex
<1>3. /\ got' = (IF i = -1 THEN NIL ELSE values[i]) /\ UNCHANGED <<values, size, cells, loop>>
  BY DEF L!List_get, L!array
<1>4. L!Contents \in Seq(Elements) /\ Len(L!Contents) = size /\ \A k \in 1..size : L!Contents[k] = values[k - 1]
  BY ContentsAre DEF ListInv
<1> HIDE DEF i, ps
<1>5. L!Contents' = L!Contents
  BY <1>3 DEF L!Contents
<1>6. got' = IF ps = {} THEN NIL ELSE L!Contents[CHOOSE k \in ps : TRUE]
  <2>1. CASE i = -1
    BY <1>2, <1>3, <2>1
  <2>2. CASE i \in 0..size-1 /\ i # -1
    <3>1. i \in Int /\ i + 1 \in 1..size /\ i + 1 - 1 = i
      BY <1>1, <2>2
    <3>2. L!Contents[i + 1] = values[i]
      <4>1. PICK k \in 1..size : k = i + 1 /\ k - 1 = i
        BY <3>1
      <4> QED
        BY <1>4, <4>1
    <3> QED
      BY <1>2, <1>3, <2>2, <3>2
  <2> QED
    BY <1>2, <2>1, <2>2
<1>7. SeqNext
  <2>1. L!ImplementsSequence!Get(p)
    BY <1>4, <1>5, <1>6 DEF L!ImplementsSequence!Get, ps
  <2> QED
    BY <2>1 DEF SeqNext, L!ImplementsSequence!Next
<1>8. ReplyOK'
  BY <1>2, <1>3 DEF ReplyOK, ListInv, ArrayOK
<1> QED
  BY <1>3, <1>7, <1>8 DEF ListInv, LoopOK, SeenSoFar, ArrayOK, HalfFull, IsArray

LEMMA SetKept ==
    ASSUME ListInv, NEW p \in L!Numbers, NEW v \in Elements, L!List_set(p, v)
    PROVE  ListInv' /\ SeqNext
<1> DEFINE i == L!value_to_index(p, size)
           ps == L!ImplementsSequence!Places(p, size)
<1>1. p \in Int /\ size \in Nat /\ cells \in Nat /\ size <= cells
  BY ListFacts DEF L!Numbers, ListInv, ArrayOK
<1>2. /\ i = -1 \/ i \in 0..size-1
      /\ i = -1 <=> ps = {}
      /\ i # -1 => (CHOOSE k \in ps : TRUE) = i + 1
  BY <1>1, PlaceOfIndex
<1>3. /\ values' = (IF i = -1 THEN values ELSE [values EXCEPT ![i] = v])
      /\ UNCHANGED <<size, cells, got>> /\ L!Disturb
  BY DEF L!List_set
<1>4. L!Contents \in Seq(Elements) /\ Len(L!Contents) = size /\ \A k \in 1..size : L!Contents[k] = values[k - 1]
  BY ContentsAre DEF ListInv
<1> HIDE DEF i, ps
<1>5. CASE i = -1
  <2>1. ArrayOK' /\ HalfFull' /\ L!Contents' = L!Contents
    BY <1>3, <1>5 DEF ListInv, ArrayOK, HalfFull, IsArray, L!Contents
  <2>2. L!ImplementsSequence!Set(p, v)
    BY <1>2, <1>3, <1>4, <1>5, <2>1 DEF L!ImplementsSequence!Set, L!ImplementsSequence!At, ps
  <2> QED
    BY <2>1, <2>2, <1>3, DisturbKept DEF SeqNext, L!ImplementsSequence!Next, ListInv, ReplyOK
<1>6. CASE i \in 0..size-1 /\ i # -1
  <2>1. values' = [j \in 0..cells-1 |-> IF j = i THEN v ELSE values[j]] /\ i \in 0..cells-1
    BY <1>1, <1>3, <1>6 DEF ListInv, ArrayOK, IsArray
  <2>2. ArrayOK' /\ HalfFull'
    <3>1. IsArray(values, cells)'
      <4>1. IsArray(values', cells')
        BY <1>3, <2>1 DEF IsArray
      <4> QED
        BY <4>1 DEF IsArray
    <3>2. \A j \in 0..size-1 : values'[j] \in Elements
      BY <1>1, <2>1 DEF ListInv, ArrayOK
    <3> QED
      BY <1>1, <1>3, <3>1, <3>2 DEF ListInv, ArrayOK, HalfFull
  <2>3. L!Contents' = [L!Contents EXCEPT ![i + 1] = v]
    <3> DEFINE t == [L!Contents EXCEPT ![i + 1] = v]
    <3>1. i + 1 \in 1..size
      BY <1>1, <1>6
    <3>2. /\ t \in Seq(Elements) /\ Len(t) = size
          /\ \A k \in 1..size : t[k] = IF k = i + 1 THEN v ELSE L!Contents[k]
      BY <1>4, <3>1
    <3>3. ASSUME NEW k \in 1..size PROVE values'[k - 1] = t[k]
      <4>1. k - 1 \in 0..cells-1 /\ (k - 1 = i <=> k = i + 1)
        BY <1>1, <1>6
      <4>2. values'[k - 1] = IF k = i + 1 THEN v ELSE values[k - 1]
        BY <2>1, <4>1
      <4> QED
        BY <1>4, <3>2, <4>2
    <3> HIDE DEF t
    <3>4. L!Contents' = t
      BY <1>1, <1>3, <2>2, <3>2, <3>3, ContentsBecome
    <3> QED
      BY <3>4 DEF t
  <2>4. L!ImplementsSequence!Set(p, v)
    <3>1. ps # {} /\ (CHOOSE k \in ps : TRUE) = i + 1 /\ UNCHANGED got
      BY <1>2, <1>3, <1>6
    <3> QED
      BY <1>4, <2>3, <3>1 DEF L!ImplementsSequence!Set, L!ImplementsSequence!At, L!ImplementsSequence!ReplaceAt, ps
  <2> QED
    BY <2>2, <2>4, <1>3, DisturbKept DEF SeqNext, L!ImplementsSequence!Next, ListInv, ReplyOK
<1> QED
  BY <1>2, <1>5, <1>6

LEMMA RemoveKept ==
    ASSUME ListInv, NEW p \in L!Numbers, L!List_delete(p)
    PROVE  ListInv' /\ SeqNext
<1> DEFINE i == L!value_to_index(p, size)
           ps == L!ImplementsSequence!Places(p, size)
<1>1. p \in Int /\ size \in Nat /\ cells \in Nat /\ size <= cells
  BY ListFacts DEF L!Numbers, ListInv, ArrayOK
<1>2. /\ i = -1 \/ i \in 0..size-1
      /\ i = -1 <=> ps = {}
      /\ i # -1 => (CHOOSE k \in ps : TRUE) = i + 1
  BY <1>1, PlaceOfIndex
<1>3. /\ IF i = -1 THEN UNCHANGED <<values, size, cells>> ELSE L!objlist_del(i)
      /\ UNCHANGED got /\ L!Disturb
  BY DEF L!List_delete, L!array
<1>4. L!Contents \in Seq(Elements) /\ Len(L!Contents) = size /\ \A k \in 1..size : L!Contents[k] = values[k - 1]
  BY ContentsAre DEF ListInv
<1> HIDE DEF i, ps
<1>5. CASE i = -1
  <2>1. ArrayOK' /\ HalfFull' /\ L!Contents' = L!Contents
    BY <1>3, <1>5 DEF ListInv, ArrayOK, HalfFull, IsArray, L!Contents
  <2>2. L!ImplementsSequence!Delete(p)
    BY <1>2, <1>3, <1>4, <1>5, <2>1 DEF L!ImplementsSequence!Delete, L!ImplementsSequence!At, ps
  <2> QED
    BY <2>1, <2>2, <1>3, DisturbKept DEF SeqNext, L!ImplementsSequence!Next, ListInv, ReplyOK
<1>6. CASE i \in 0..size-1 /\ i # -1
  <2>1. /\ ArrayOK' /\ HalfFull' /\ size' = size - 1
        /\ \A j \in 0..size-2 : values'[j] = IF j < i THEN values[j] ELSE values[j + 1]
    BY <1>3, <1>6, DeleteKept DEF ListInv
  <2>2. L!Contents' = L!ImplementsSequence!RemoveAt(L!Contents, i + 1)
    <3> DEFINE t == L!ImplementsSequence!RemoveAt(L!Contents, i + 1)
    <3>1. i + 1 \in 1..size
      BY <1>1, <1>6
    <3>2. /\ t \in Seq(Elements) /\ Len(t) = size - 1
          /\ \A k \in 1..size-1 : t[k] = IF k < i + 1 THEN L!Contents[k] ELSE L!Contents[k + 1]
      BY <1>4, <3>1, RemoveAtIs
    <3> HIDE DEF t
    <3>3. ASSUME NEW k \in 1..size-1 PROVE values'[k - 1] = t[k]
      <4>1. /\ k - 1 \in 0..size-2 /\ (k - 1 < i <=> k < i + 1) /\ k - 1 + 1 = k /\ k + 1 - 1 = k
            /\ k \in 1..size /\ k + 1 \in 1..size
        BY <1>1, <1>6
      <4>2. values'[k - 1] = IF k < i + 1 THEN values[k - 1] ELSE values[k]
        BY <2>1, <4>1
      <4>3. L!Contents[k] = values[k - 1] /\ L!Contents[k + 1] = values[k]
        <5>1. L!Contents[k + 1] = values[k + 1 - 1]
          BY <1>4, <4>1
        <5> QED
          BY <1>4, <4>1, <5>1
      <4> QED
        BY <3>2, <4>2, <4>3
    <3>4. size - 1 \in Nat
      BY <1>1, <1>6
    <3>5. L!Contents' = t
      BY <2>1, <3>2, <3>3, <3>4, ContentsBecome
    <3> QED
      BY <3>5 DEF t
  <2>3. L!ImplementsSequence!Delete(p)
    <3>1. ps # {} /\ (CHOOSE k \in ps : TRUE) = i + 1 /\ UNCHANGED got
      BY <1>2, <1>3, <1>6
    <3> QED
      BY <1>4, <2>2, <3>1 DEF L!ImplementsSequence!Delete, L!ImplementsSequence!At, ps
  <2> QED
    BY <2>1, <2>3, <1>3, DisturbKept DEF SeqNext, L!ImplementsSequence!Next, ListInv, ReplyOK
<1> QED
  BY <1>2, <1>5, <1>6

LEMMA PutKept ==
    ASSUME ListInv, NEW p \in L!Numbers, NEW v \in Elements, L!List_insert(p, v)
    PROVE  ListInv' /\ SeqNext
<1> DEFINE i == L!value_to_index(p, size + 1)
           ps == L!ImplementsSequence!Places(p, size + 1)
<1>1. p \in Int /\ size \in Nat /\ size + 1 \in Nat /\ size + 1 - 1 = size
  BY ListFacts DEF L!Numbers, ListInv, ArrayOK
<1>2. /\ i = -1 \/ i \in 0..size
      /\ i = -1 <=> ps = {}
      /\ i # -1 => (CHOOSE k \in ps : TRUE) = i + 1
  BY <1>1, PlaceOfIndex
<1>3. /\ IF i = -1 THEN UNCHANGED <<values, size, cells>> ELSE L!objlist_insert(i, v)
      /\ UNCHANGED got /\ L!Disturb
  BY DEF L!List_insert, L!array
<1>4. L!Contents \in Seq(Elements) /\ Len(L!Contents) = size /\ \A k \in 1..size : L!Contents[k] = values[k - 1]
  BY ContentsAre DEF ListInv
<1> HIDE DEF i, ps
<1>5. CASE i = -1
  <2>1. ArrayOK' /\ HalfFull' /\ L!Contents' = L!Contents
    BY <1>3, <1>5 DEF ListInv, ArrayOK, HalfFull, IsArray, L!Contents
  <2>2. L!ImplementsSequence!Insert(p, v)
    BY <1>2, <1>3, <1>4, <1>5, <2>1 DEF L!ImplementsSequence!Insert, L!ImplementsSequence!At, ps
  <2> QED
    BY <2>1, <2>2, <1>3, DisturbKept DEF SeqNext, L!ImplementsSequence!Next, ListInv, ReplyOK
<1>6. CASE i \in 0..size /\ i # -1
  <2>1. /\ ArrayOK' /\ HalfFull' /\ size' = size + 1
        /\ \A j \in 0..size : values'[j] = IF j < i THEN values[j] ELSE IF j = i THEN v ELSE values[j - 1]
    BY <1>3, <1>6, InsertKept DEF ListInv
  <2>2. L!Contents' = L!ImplementsSequence!InsertAt(L!Contents, i + 1, v)
    <3> DEFINE t == L!ImplementsSequence!InsertAt(L!Contents, i + 1, v)
    <3>1. i + 1 \in 1..size + 1
      BY <1>1, <1>6
    <3>2. i + 1 \in 1..Len(L!Contents)+1
      BY <1>4, <3>1
    <3>3. /\ t \in Seq(Elements) /\ Len(t) = size + 1
          /\ \A k \in 1..size + 1 : t[k] = IF k < i + 1 THEN L!Contents[k]
                                          ELSE IF k = i + 1 THEN v ELSE L!Contents[k - 1]
      <4> DEFINE s == L!Contents
                 w == i + 1
      <4>1. s \in Seq(Elements) /\ w \in 1..Len(s)+1
        BY <1>4, <3>2
      <4> HIDE DEF s, w
      <4>2. IsInserted(L!ImplementsSequence!InsertAt(s, w, v), Elements, s, w, v)
        BY <4>1, InsertAtIs
      <4> QED
        BY <1>4, <4>2 DEF IsInserted, s, w
    <3> HIDE DEF t
    <3>4. ASSUME NEW k \in 1..size + 1 PROVE values'[k - 1] = t[k]
      <4>1. k - 1 \in 0..size /\ (k - 1 < i <=> k < i + 1) /\ (k - 1 = i <=> k = i + 1)
        BY <1>1, <1>6
      <4>2. values'[k - 1] = IF k < i + 1 THEN values[k - 1] ELSE IF k = i + 1 THEN v ELSE values[k - 1 - 1]
        BY <2>1, <4>1
      <4>3. CASE k < i + 1
        <5>1. k \in 1..size
          BY <1>1, <1>6, <4>3
        <5> QED
          BY <1>4, <3>3, <4>2, <4>3, <5>1
      <4>4. CASE k = i + 1
        <5>1. ~(k < i + 1)
          BY <1>6, <4>4
        <5> QED
          BY <3>3, <4>2, <4>4, <5>1
      <4>5. CASE ~(k < i + 1) /\ k # i + 1
        <5>1. k - 1 \in 1..size
          BY <1>1, <1>6, <4>5
        <5>2. t[k] = L!Contents[k - 1] /\ values'[k - 1] = values[k - 1 - 1]
          BY <3>3, <4>2, <4>5
        <5> QED
          BY <1>4, <5>1, <5>2
      <4> QED
        BY <4>3, <4>4, <4>5
    <3>5. L!Contents' = t
      BY <1>1, <2>1, <3>3, <3>4, ContentsBecome
    <3> QED
      BY <3>5 DEF t
  <2>3. L!ImplementsSequence!Insert(p, v)
    <3>1. ps # {} /\ (CHOOSE k \in ps : TRUE) = i + 1 /\ UNCHANGED got
      BY <1>2, <1>3, <1>6
    <3> QED
      BY <1>4, <2>2, <3>1 DEF L!ImplementsSequence!Insert, L!ImplementsSequence!At, ps
  <2> QED
    BY <2>1, <2>3, <1>3, DisturbKept DEF SeqNext, L!ImplementsSequence!Next, ListInv, ReplyOK
<1> QED
  BY <1>2, <1>5, <1>6

\* The steps of a loop change neither the list nor a reply.
LEMMA LoopKept ==
    ASSUME ListInv, L!LoopStart \/ L!LoopMore
    PROVE  ListInv' /\ UNCHANGED SeqVars /\ (loop.on /\ ~loop'.on /\ loop.undisturbed => loop.seen = L!Contents)
<1>1. UNCHANGED <<values, size, cells, got>>
  BY DEF L!LoopStart, L!LoopMore, L!array
<1>2. ArrayOK' /\ HalfFull' /\ ReplyOK' /\ UNCHANGED SeqVars
  BY <1>1 DEF ListInv, ArrayOK, HalfFull, ReplyOK, IsArray, SeqVars, L!ImplementsSequence!vars, L!Contents
<1>3. CASE L!LoopStart
  <2>1. ~loop.on /\ loop' = [on |-> TRUE, iter |-> NIL, seen |-> <<>>, undisturbed |-> TRUE]
    BY <1>3 DEF L!LoopStart, L!NoLoop
  <2>2. LoopOK'
    BY <2>1 DEF LoopOK
  <2>3. SeenSoFar'
    <3>1. loop'.seen = <<>> /\ Len(<<>>) = 0 /\ loop'.iter = NIL
      BY <2>1
    <3>2. size' \in Nat
      BY <1>2 DEF ArrayOK
    <3> QED
      BY <3>1, <3>2 DEF SeenSoFar
  <2> QED
    BY <1>2, <2>1, <2>2, <2>3 DEF ListInv
<1>4. CASE L!LoopMore
  <2> DEFINE i == L!next_index(loop.iter, size)
  <2>1. /\ loop.on
        /\ loop' = IF i = -1 THEN L!NoLoop
                   ELSE [loop EXCEPT !.iter = 2 * i,
                           !.seen = IF loop.undisturbed THEN Append(loop.seen, values[L!value_to_index(2 * i, size)])
                                    ELSE <<>>]
    BY <1>4 DEF L!LoopMore
  <2>2. /\ loop \in [on : BOOLEAN, iter : Int \cup {NIL}, seen : Seq(Elements), undisturbed : BOOLEAN]
        /\ size \in Nat
    BY DEF ListInv, LoopOK, ArrayOK
  <2>3. PICK len \in Nat : len = Len(loop.seen)
    BY <2>2
  <2>4. loop.undisturbed => /\ len <= size
                            /\ \A k \in 1..len : loop.seen[k] = values[k - 1]
                            /\ IF loop.iter = NIL THEN len = 0 ELSE len >= 1 /\ loop.iter = 2 * (len - 1)
    BY <2>1, <2>3 DEF ListInv, SeenSoFar
  <2>5. i = -1 \/ (i \in 0..size-1 /\ L!value_to_index(2 * i, size) = i)
    <3>1. PICK q \in Int : q = IF loop.iter = NIL THEN 0 ELSE loop.iter + 2
      BY <2>2
    <3>2. i = IF q % 2 = 0 /\ q >= 0 /\ q < 2 * size THEN q \div 2 ELSE -1
      BY <3>1 DEF L!next_index, L!is_integer
    <3>3. i = -1 \/ i \in 0..size-1
      BY <2>2, <3>2
    <3> HIDE DEF i
    <3>4. i \in 0..size-1 => (2 * i) % 2 = 0 /\ (2 * i) \div 2 = i /\ ~(2 * i < 0)
      BY <2>2
    <3>5. i \in 0..size-1 => L!value_to_index(2 * i, size) = i
      <4> SUFFICES ASSUME i \in 0..size-1 PROVE L!value_to_index(2 * i, size) = i
        OBVIOUS
      <4>1. i >= 0 /\ i < size
        BY <2>2
      <4> QED
        BY <3>4, <4>1 DEF L!value_to_index, L!is_integer
    <3> QED
      BY <3>3, <3>5
  <2>6. loop.undisturbed => i = IF len < size THEN len ELSE -1
    <3> SUFFICES ASSUME loop.undisturbed PROVE i = IF len < size THEN len ELSE -1
      OBVIOUS
    <3>1. (IF loop.iter = NIL THEN 0 ELSE loop.iter + 2) = 2 * len
      BY <2>3, <2>4
    <3>2. (2 * len) % 2 = 0 /\ (2 * len) \div 2 = len /\ 2 * len >= 0 /\ (2 * len < 2 * size <=> len < size)
      BY <2>2
    <3> QED
      BY <3>1, <3>2 DEF L!next_index, L!is_integer
  <2> HIDE DEF i
  <2>7. CASE i = -1
    <3>1. loop' = L!NoLoop
      BY <2>1, <2>7
    <3>2. LoopOK' /\ SeenSoFar'
      BY <3>1 DEF LoopOK, SeenSoFar, L!NoLoop
    <3>3. loop.undisturbed => loop.seen = L!Contents
      <4> SUFFICES ASSUME loop.undisturbed PROVE loop.seen = L!Contents
        OBVIOUS
      <4>1. len = size
        BY <2>2, <2>4, <2>6, <2>7
      <4>2. L!Contents \in Seq(Elements) /\ Len(L!Contents) = size /\ \A k \in 1..size : L!Contents[k] = values[k - 1]
        BY ContentsAre DEF ListInv
      <4>3. loop.seen \in Seq(Elements) /\ Len(loop.seen) = size
        BY <2>2, <2>3, <4>1
      <4>4. \A k \in 1..size : loop.seen[k] = L!Contents[k]
        BY <2>4, <4>1, <4>2
      <4> QED
        BY <4>2, <4>3, <4>4, SeqEqual
    <3> QED
      BY <1>2, <3>2, <3>3 DEF ListInv
  <2>8. CASE i # -1
    <3>1. i \in 0..size-1 /\ i \in Int /\ values[i] \in Elements
      BY <2>2, <2>5, <2>8 DEF ListInv, ArrayOK
    <3>2. loop' = [loop EXCEPT !.iter = 2 * i, !.seen = IF loop.undisturbed THEN Append(loop.seen, values[i]) ELSE <<>>]
      BY <2>1, <2>5, <2>8
    <3>3. CASE loop.undisturbed
      <4>1. loop' = [loop EXCEPT !.iter = 2 * i, !.seen = Append(loop.seen, values[i])]
        BY <3>2, <3>3
      <4>0. loop.on /\ 2 * i \in Int
        BY <2>1, <3>1
      <4>2. /\ Append(loop.seen, values[i]) \in Seq(Elements) /\ Len(Append(loop.seen, values[i])) = len + 1
            /\ Append(loop.seen, values[i])[len + 1] = values[i]
            /\ \A k \in 1..len : Append(loop.seen, values[i])[k] = loop.seen[k]
        BY <2>2, <2>3, <3>1
      <4>3. /\ loop' \in [on : BOOLEAN, iter : Int \cup {NIL}, seen : Seq(Elements), undisturbed : BOOLEAN]
            /\ loop'.on /\ loop'.iter = 2 * i /\ loop'.seen = Append(loop.seen, values[i])
        BY <2>2, <4>0, <4>1, <4>2
      <4>4. LoopOK'
        BY <4>3 DEF LoopOK
      <4>5. i = len /\ len < size /\ len + 1 - 1 = len /\ loop'.iter # NIL
        BY <2>2, <2>6, <2>8, <3>1, <3>3, <4>3, ListFacts
      <4>6. ASSUME NEW k \in 1..len + 1 PROVE loop'.seen[k] = values[k - 1]
        <5>1. CASE k = len + 1
          BY <4>2, <4>3, <4>5, <5>1
        <5>2. CASE k # len + 1
          <6>1. k \in 1..len
            BY <5>2
          <6> QED
            BY <2>4, <3>3, <4>2, <4>3, <6>1
        <5> QED
          BY <5>1, <5>2
      <4>7. SeenSoFar'
        <5>1. Len(loop'.seen) = len + 1 /\ size' = size /\ values' = values /\ len + 1 <= size /\ len + 1 >= 1
          BY <1>1, <2>2, <4>2, <4>3, <4>5
        <5> QED
          BY <4>3, <4>5, <4>6, <5>1 DEF SeenSoFar
      <4> QED
        BY <1>2, <4>3, <4>4, <4>7 DEF ListInv
    <3>4. CASE ~loop.undisturbed
      <4>1. loop' = [loop EXCEPT !.iter = 2 * i, !.seen = <<>>]
        BY <3>2, <3>4
      <4>2. <<>> \in Seq(Elements) /\ loop.on /\ 2 * i \in Int
        BY <2>1, <3>1
      <4>3. /\ loop' \in [on : BOOLEAN, iter : Int \cup {NIL}, seen : Seq(Elements), undisturbed : BOOLEAN]
            /\ loop'.on /\ ~loop'.undisturbed
        BY <2>2, <3>4, <4>1, <4>2
      <4> QED
        BY <1>2, <3>4, <4>3 DEF ListInv, LoopOK, SeenSoFar
    <3> QED
      BY <3>3, <3>4
  <2> QED
    BY <2>7, <2>8
<1> QED
  BY <1>3, <1>4

\* The step of which LoopVisitsAll speaks.
Visited == loop.on /\ ~loop'.on /\ loop.undisturbed => loop.seen = L!Contents

\* Each step of a list.
LEMMA ListKept == ASSUME ListInv, L!Next PROVE ListInv' /\ (SeqNext \/ UNCHANGED SeqVars) /\ Visited
<1>1. CASE L!LoopStart \/ L!LoopMore
  BY <1>1, LoopKept DEF Visited
<1>2. CASE \E args \in L!BoundedSeq(Elements, 3) : L!List_new(args)
  BY <1>2, NewKept DEF L!List_new, Visited
<1>3. CASE \E v \in Elements : L!List_add(v)
  BY <1>3, AddKept DEF L!List_add, Visited
<1>4. CASE \E p \in L!Numbers : L!List_get(p)
  BY <1>4, GetKept DEF L!List_get, Visited
<1>5. ASSUME L!Disturb PROVE Visited
  BY <1>5 DEF L!Disturb, Visited, ListInv, LoopOK
<1>6. CASE \E p \in L!Numbers : L!List_delete(p)
  BY <1>5, <1>6, RemoveKept DEF L!List_delete
<1>7. CASE \E p \in L!Numbers, v \in Elements : L!List_set(p, v)
  BY <1>5, <1>7, SetKept DEF L!List_set
<1>8. CASE \E p \in L!Numbers, v \in Elements : L!List_insert(p, v)
  BY <1>5, <1>8, PutKept DEF L!List_insert
<1> QED
  BY <1>1, <1>2, <1>3, <1>4, <1>6, <1>7, <1>8 DEF L!Next

\* Each step of anything.
LEMMA ListGoesOn ==
    ASSUME ListInv, [ObjectsNext]_all
    PROVE  ListInv' /\ [SeqNext]_SeqVars /\ [Visited]_(L!vars)
<1>1. CASE ListStep
  BY <1>1, ListKept DEF ListStep
<1>2. CASE UNCHANGED listVars
  BY <1>2 DEF listVars, ListInv, ArrayOK, HalfFull, LoopOK, SeenSoFar, ReplyOK, IsArray,
     SeqVars, L!ImplementsSequence!vars, L!Contents, L!vars, L!array
<1> QED
  BY <1>1, <1>2 DEF ObjectsNext, TableStep, ProtosStep, RangeStep, FileStep, Finished, all

\* A list is a sequence, whatever the shifts and reallocations of its array:
\* objlist_insert(), objlist_del() and the natives that index it do what
\* IndexedList says.
THEOREM ListsAreSequences == ObjectsSpec => ImplementsList
<1>1. ObjectsInit => ListInv /\ L!ImplementsSequence!Init
  BY ListInit DEF ObjectsInit
<1>2. ListInv /\ [ObjectsNext]_all => ListInv' /\ [L!ImplementsSequence!Next]_(L!ImplementsSequence!vars)
  BY ListGoesOn DEF SeqNext, SeqVars
<1>3. ImplementsList <=> L!ImplementsSequence!Init /\ [][L!ImplementsSequence!Next]_(L!ImplementsSequence!vars)
  BY DEF ImplementsList, L!ImplementsList, L!ImplementsSequence!Spec
<1> QED
  BY <1>1, <1>2, <1>3, PTL DEF ObjectsSpec

\* A for-loop whose body does no more than add to the list sees all of it, each
\* element once and in order, also what was added.
THEOREM LoopsVisitAll == ObjectsSpec => LoopVisitsAll
<1>1. ObjectsInit => ListInv
  BY ListInit DEF ObjectsInit
<1>2. ListInv /\ [ObjectsNext]_all => ListInv' /\ [loop.on /\ ~loop'.on /\ loop.undisturbed => loop.seen = L!Contents]_(L!vars)
  BY ListGoesOn DEF Visited
<1>3. LoopVisitsAll <=> [][loop.on /\ ~loop'.on /\ loop.undisturbed => loop.seen = L!Contents]_(L!vars)
  BY DEF LoopVisitsAll, L!LoopVisitsAll
<1> QED
  BY <1>1, <1>2, <1>3, PTL DEF ObjectsSpec

-----------------------------------------------------------------------------
(* The types of all variables.                                             *)

\* Ranges.
LEMMA RangeTyped ==
    ASSUME R!TypeOK, R!Range_iterMore PROVE R!TypeOK'
<1> DEFINE S == -Top..Top
<1>1. UNCHANGED <<start, end, inclusive>> /\ on' \in BOOLEAN
  BY DEF R!TypeOK, R!Range_iterMore, R!Stop, R!Visit
<1>2. start \in S /\ end \in S /\ Top \in Nat
  BY ObjectsAssumption DEF R!TypeOK, R!Numbers
<1>3. ASSUME NEW v \in Int, R!Within(v) PROVE v \in S
  BY <1>2, <1>3 DEF R!Within
<1>4. ASSUME at # NIL PROVE R!Following(at) \in Int
  <2>1. at \in Int /\ at + 2 \in Int /\ at - 2 \in Int
    BY <1>4, ObjectsAssumption DEF R!TypeOK
  <2> QED
    BY <2>1, RoundType DEF R!Following
<1>5. UNCHANGED <<at, seen>> \/ \E v \in S : at' = v /\ seen' = Append(seen, v)
  <2>1. \/ R!Stop \/ R!Visit(start)
        \/ at # NIL /\ R!Within(R!Following(at)) /\ R!Visit(R!Following(at))
    BY DEF R!Range_iterMore
  <2>2. R!Stop => UNCHANGED <<at, seen>>
    BY DEF R!Stop
  <2>3. \A v \in S : R!Visit(v) => UNCHANGED <<at, seen>> \/ (at' = v /\ seen' = Append(seen, v))
    BY DEF R!Visit
  <2> HIDE DEF S
  <2> QED
    BY <1>2, <1>3, <1>4, <2>1, <2>2, <2>3
<1>6. R!Numbers' = R!Numbers
  BY DEF R!Numbers
<1>7. at' \in S \cup {NIL} /\ seen' \in Seq(S)
  <2>1. at \in S \cup {NIL} /\ seen \in Seq(S)
    BY DEF R!TypeOK
  <2> HIDE DEF S
  <2> QED
    BY <1>5, <2>1
<1> QED
  BY <1>1, <1>6, <1>7 DEF R!TypeOK

\* Lists.
LEMMA ListTyped == ASSUME ListInv PROVE L!TypeOK
<1>0. /\ size \in Nat /\ cells \in Nat /\ size <= cells /\ IsArray(values, cells)
      /\ \A j \in 0..size-1 : values[j] \in Elements
  BY Zenon DEF ListInv, ArrayOK
<1>1. /\ size \in Nat /\ cells \in Nat /\ size <= cells /\ size \in 0..cells
      /\ values = [j \in 0..cells-1 |-> values[j]] /\ \A j \in 0..size-1 : values[j] \in Elements
  <2>1. size \in 0..cells
    BY <1>0
  <2> QED
    BY <1>0, <2>1, Zenon DEF IsArray
<1>2. DOMAIN values = 0..cells-1
  BY <1>1
<1>3. loop.on \in BOOLEAN /\ loop.seen \in Seq(Elements)
  BY DEF ListInv, LoopOK
<1> QED
  BY <1>1, <1>2, <1>3 DEF ListInv, HalfFull, ReplyOK, L!TypeOK

AllInv == /\ TableInv /\ MarksInv /\ ProtosTypeOK /\ ListInv /\ FilesInv
          /\ RangeOK /\ R!TypeOK

\* The invariants of all parts hold, and every step keeps them.
LEMMA AllInit == ObjectsInit => AllInv
<1>1. R!Init => R!TypeOK
  BY DEF R!Init, R!TypeOK
<1> QED
  BY <1>1, TableInvInit, MarksInvInit, TypesInit, ListInit, FilesInvInit, RangeInit DEF ObjectsInit, AllInv, RangeOK

LEMMA AllNext == AllInv /\ [ObjectsNext]_all => AllInv'
<1> SUFFICES ASSUME AllInv, [ObjectsNext]_all PROVE AllInv'
  OBVIOUS
<1>1. [Next]_vars /\ [ProtosNext]_protosVars /\ [FilesNext]_fileVars /\ (R!Next \/ UNCHANGED rangeVars)
  BY DEF ObjectsNext, TableStep, ProtosStep, ListStep, RangeStep, FileStep, Finished, all
<1>2. TableInv'
  BY <1>1, TableInvNext DEF AllInv
<1>3. MarksInv' /\ ProtosTypeOK'
  <2>1. GraphTypes
    BY DEF AllInv, ProtosTypeOK, GraphTypes
  <2> QED
    BY <1>1, <2>1, MarksInvNext, TypesKept DEF AllInv
<1>4. ListInv'
  BY ListGoesOn DEF AllInv
<1>5. FilesInv'
  BY <1>1, FilesInvNext DEF AllInv
<1>6. RangeOK'
  BY RangeGoesOn DEF AllInv
<1>7. R!TypeOK'
  <2>1. CASE R!Next
    BY <2>1, RangeTyped DEF R!Next, AllInv
  <2>2. CASE UNCHANGED rangeVars
    BY <2>2 DEF rangeVars, R!TypeOK, AllInv
  <2> QED
    BY <1>1, <2>1, <2>2
<1> QED
  BY <1>2, <1>3, <1>4, <1>5, <1>6, <1>7 DEF AllInv

\* Every variable keeps its type: among the rest, the arrays of tables and
\* lists are as long as their capacity says, and no cell of a list in use is
\* one that was never written.
THEOREM ObjectsTypeCorrect == ObjectsSpec => []ObjectsTypeOK
<1>1. AllInv => ObjectsTypeOK
  BY ListTyped DEF AllInv, TableInv, FilesInv, ObjectsTypeOK
<1> QED
  BY <1>1, AllInit, AllNext, PTL DEF ObjectsSpec
=============================================================================
