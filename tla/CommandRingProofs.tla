-------------------------- MODULE CommandRingProofs --------------------------
(* Theorems about CommandRing, for rings and commands of every size.        *)
EXTENDS CommandRing, TLAPS

-----------------------------------------------------------------------------
(* The inductive invariant.  Places are compared by their distance from the *)
(* read offset, going up and around.                                        *)

DistFrom(r, x) == IF x >= r THEN x - r ELSE x + QueueSize - r
Dist(x) == DistFrom(readOffset, x)

(* The commands lie between the offsets, one after the other.               *)
InRing == \A i \in DOMAIN queued :
              Dist(queued[i].at) + Size(queued[i].cmd) <= Dist(writeOffset)
InOrder == \A i, j \in DOMAIN queued :
              i < j => Dist(queued[i].at) + Size(queued[i].cmd) <= Dist(queued[j].at)
FirstAtRead == queued # <<>> => queued[1].at = readOffset
Adjacent == \A i \in DOMAIN queued :
                Wrap(queued[i].at + Size(queued[i].cmd))
                    = IF i = Len(queued) THEN writeOffset ELSE queued[i + 1].at
EmptyIsEqual == queued = <<>> => readOffset = writeOffset
FitBehind == \A i \in DOMAIN queued : Size(queued[i].cmd) <= MaxCmdSize

(* The command that is being written fits between the write and the read    *)
(* offset, and its first words are there.                                   *)
WriterFits ==
    client.pc = "write" =>
        /\ Size(client.cmd) <= MaxCmdSize
        /\ Dist(writeOffset) + Size(client.cmd) < QueueSize
        /\ client.word <= CmdWords[client.cmd]
        /\ \A k \in 0 .. client.word - 1 :
               mem[writeOffset + 4 * k] = Word(client.cmd, k)

(* What the walker has read are the first words of the first command.       *)
ReaderHonest ==
    walker.pc = "read" =>
        /\ queued # <<>>
        /\ Len(walker.got) <= CmdWords[queued[1].cmd]
        /\ \A k \in 1 .. Len(walker.got) : walker.got[k] = Word(queued[1].cmd, k - 1)

PlaceInv == InRing /\ InOrder /\ FirstAtRead /\ Adjacent /\ EmptyIsEqual /\ FitBehind

RingInv == TypeOK /\ PlaceInv /\ CommandsIntact /\ WriterFits /\ ReaderHonest

-----------------------------------------------------------------------------
(* Arithmetic                                                               *)

LEMMA WrapLow == ASSUME NEW x \in Nat, x < QueueSize PROVE Wrap(x) = x
BY SizesAssumption DEF Wrap

LEMMA WrapHigh ==
  ASSUME NEW x \in Nat, QueueSize <= x, x < QueueSize + QueueSize
  PROVE  Wrap(x) = x - QueueSize
BY SizesAssumption DEF Wrap

LEMMA WrapRange == ASSUME NEW x \in Nat PROVE Wrap(x) \in 0 .. QueueSize - 1
BY SizesAssumption DEF Wrap

LEMMA SizeType ==
  ASSUME NEW c \in Commands
  PROVE  Size(c) \in Nat /\ Size(c) >= 4 /\ Size(c) = 4 * CmdWords[c] /\ CmdWords[c] \in Nat \ {0}
BY CommandsAssumption DEF Size

LEMMA ElementType == ASSUME NEW S, NEW s \in Seq(S), NEW i \in DOMAIN s PROVE s[i] \in S
OBVIOUS

LEMMA AppendFacts ==
  ASSUME NEW S, NEW s \in Seq(S), NEW e \in S
  PROVE  /\ Append(s, e) \in Seq(S) /\ Len(s) \in Nat /\ DOMAIN s = 1 .. Len(s)
         /\ Len(Append(s, e)) = Len(s) + 1 /\ DOMAIN Append(s, e) = 1 .. Len(s) + 1
         /\ \A i \in 1 .. Len(s) : Append(s, e)[i] = s[i]
         /\ Append(s, e)[Len(s) + 1] = e
         /\ Append(s, e) # <<>>
OBVIOUS

LEMMA EmptyLength == ASSUME NEW S, NEW s \in Seq(S) PROVE s = <<>> <=> Len(s) = 0
OBVIOUS

LEMMA TailFacts ==
  ASSUME NEW S, NEW s \in Seq(S), s # <<>>
  PROVE  /\ Tail(s) \in Seq(S) /\ Len(s) \in Nat \ {0} /\ DOMAIN s = 1 .. Len(s)
         /\ Len(Tail(s)) = Len(s) - 1 /\ DOMAIN Tail(s) = 1 .. Len(s) - 1
         /\ \A i \in 1 .. Len(s) - 1 : Tail(s)[i] = s[i + 1]
         /\ Tail(s) = <<>> <=> Len(s) = 1
<1>1. Len(s) \in Nat \ {0} /\ DOMAIN s = 1 .. Len(s)
  OBVIOUS
<1>2. Tail(s) \in Seq(S) /\ Len(Tail(s)) = Len(s) - 1
  OBVIOUS
<1>3. DOMAIN Tail(s) = 1 .. Len(s) - 1
  BY <1>2
<1>4. \A i \in 1 .. Len(s) - 1 : Tail(s)[i] = s[i + 1]
  BY <1>1
<1>5. Tail(s) = <<>> <=> Len(Tail(s)) = 0
  BY <1>2, EmptyLength
<1> QED BY <1>1, <1>2, <1>3, <1>4, <1>5

Queued == [cmd : Commands, at : 0 .. QueueSize - 1]

LEMMA QueuedType ==
  ASSUME TypeOK, NEW i \in DOMAIN queued
  PROVE  queued[i].cmd \in Commands /\ queued[i].at \in 0 .. QueueSize - 1
<1>1. queued \in Seq(Queued)
  BY DEF TypeOK, Queued
<1>2. queued[i] \in Queued
  BY <1>1, ElementType
<1> QED BY <1>2 DEF Queued

LEMMA DistType ==
  ASSUME NEW r \in 0 .. QueueSize - 1, NEW x \in 0 .. QueueSize - 1
  PROVE  DistFrom(r, x) \in 0 .. QueueSize - 1 /\ (DistFrom(r, x) = 0 <=> x = r)
BY SizesAssumption DEF DistFrom

(* A step up from x.                                                        *)
LEMMA DistUp ==
  ASSUME NEW r \in 0 .. QueueSize - 1, NEW x \in 0 .. QueueSize - 1, NEW s \in Nat,
         DistFrom(r, x) + s < QueueSize
  PROVE  DistFrom(r, Wrap(x + s)) = DistFrom(r, x) + s
<1>1. s < QueueSize
  BY DistType, SizesAssumption
<1>2. CASE x + s < QueueSize
  <2>1. Wrap(x + s) = x + s
    BY <1>2, WrapLow
  <2> QED BY <1>2, <2>1, SizesAssumption DEF DistFrom
<1>3. CASE x + s >= QueueSize
  <2>1. Wrap(x + s) = x + s - QueueSize
    BY <1>1, <1>3, WrapHigh, SizesAssumption
  <2> QED BY <1>1, <1>3, <2>1, SizesAssumption DEF DistFrom
<1> QED BY <1>2, <1>3, SizesAssumption

(* A step up of the read offset, not beyond x.                              *)
LEMMA DistDown ==
  ASSUME NEW r \in 0 .. QueueSize - 1, NEW x \in 0 .. QueueSize - 1, NEW s \in Nat,
         s <= DistFrom(r, x)
  PROVE  DistFrom(Wrap(r + s), x) = DistFrom(r, x) - s
<1>1. s < QueueSize
  BY DistType, SizesAssumption
<1>2. CASE r + s < QueueSize
  <2>1. Wrap(r + s) = r + s
    BY <1>2, WrapLow
  <2> QED BY <1>2, <2>1, SizesAssumption DEF DistFrom
<1>3. CASE r + s >= QueueSize
  <2>1. Wrap(r + s) = r + s - QueueSize
    BY <1>1, <1>3, WrapHigh, SizesAssumption
  <2> QED BY <1>1, <1>3, <2>1, SizesAssumption DEF DistFrom
<1> QED BY <1>2, <1>3, SizesAssumption

LEMMA SpaceLeft ==
  ASSUME TypeOK
  PROVE  GetSpace = QueueSize - 1 - Dist(writeOffset)
<1>1. readOffset \in 0 .. QueueSize - 1 /\ writeOffset \in 0 .. QueueSize - 1
  BY DEF TypeOK
<1>2. CASE writeOffset >= readOffset
  <2>1. readOffset - writeOffset + QueueSize - 1 \in Nat
        /\ readOffset - writeOffset + QueueSize - 1 < QueueSize
    BY <1>1, <1>2, SizesAssumption
  <2> QED BY <1>1, <1>2, <2>1, WrapLow, SizesAssumption DEF GetSpace, Dist, DistFrom
<1>3. CASE writeOffset < readOffset
  <2>1. /\ readOffset - writeOffset + QueueSize - 1 \in Nat
        /\ QueueSize <= readOffset - writeOffset + QueueSize - 1
        /\ readOffset - writeOffset + QueueSize - 1 < QueueSize + QueueSize
    BY <1>1, <1>3, SizesAssumption
  <2> QED BY <1>1, <1>3, <2>1, WrapHigh, SizesAssumption DEF GetSpace, Dist, DistFrom
<1> QED BY <1>1, <1>2, <1>3

(* A write between the offsets misses what lies between the read offset and *)
(* the write offset.                                                        *)
LEMMA Apart ==
  ASSUME TypeOK, NEW a \in 0 .. QueueSize - 1, NEW s \in Nat, NEW t \in Nat,
         Dist(a) + s <= Dist(writeOffset), Dist(writeOffset) + t < QueueSize,
         NEW x \in Nat, x < s, NEW y \in Nat, y < t
  PROVE  a + x # writeOffset + y
BY SizesAssumption DEF TypeOK, Dist, DistFrom

-----------------------------------------------------------------------------
LEMMA InitInv == Init => RingInv
<1> SUFFICES ASSUME Init PROVE RingInv
  OBVIOUS
<1>1. TypeOK
  BY CommandsAssumption, SizesAssumption
     DEF Init, TypeOK, Idle, Cell, Word, AllocSize
<1>2. PlaceInv
  BY DEF Init, PlaceInv, InRing, InOrder, FirstAtRead, Adjacent, EmptyIsEqual, FitBehind
<1>3. CommandsIntact /\ WriterFits /\ ReaderHonest
  BY DEF Init, Idle, CommandsIntact, WriterFits, ReaderHonest
<1> QED BY <1>1, <1>2, <1>3 DEF RingInv

(* A client gets space.                                                     *)
LEMMA GetSpaceKeeps ==
  ASSUME RingInv, NEW c \in Commands, GetQueueSpaceKM(c)
  PROVE  RingInv'
<1> USE DEF RingInv
<1>1. UNCHANGED <<readOffset, writeOffset, mem, walker, taken, queued>>
      /\ client' = [pc |-> "write", cmd |-> c, word |-> 0]
  BY DEF GetQueueSpaceKM
<1>2. TypeOK'
  BY <1>1 DEF TypeOK, AllocSize
<1>3. PlaceInv' /\ CommandsIntact' /\ ReaderHonest'
  BY <1>1 DEF PlaceInv, InRing, InOrder, FirstAtRead, Adjacent, EmptyIsEqual, FitBehind,
              CommandsIntact, ReaderHonest, Dist
<1>4. Dist(writeOffset) + Size(c) < QueueSize /\ Size(c) <= MaxCmdSize
  <2>1. GetSpace > Size(c) /\ Size(c) <= MaxCmdSize
    BY DEF GetQueueSpaceKM
  <2>2. Dist(writeOffset) \in Int
    BY SizesAssumption DEF TypeOK, Dist, DistFrom
  <2> QED BY <2>1, <2>2, SpaceLeft, SizeType, SizesAssumption
<1>5. WriterFits'
  BY <1>1, <1>4, SizeType DEF WriterFits, Dist
<1> QED BY <1>2, <1>3, <1>5

(* A client writes a word of its command.                                   *)
LEMMA InsertKeeps ==
  ASSUME RingInv, InsertCommandKM
  PROVE  RingInv'
<1> USE DEF RingInv
<1> DEFINE c == client.cmd
           n == client.word
           a == writeOffset + 4 * n
<1>1. /\ UNCHANGED <<readOffset, writeOffset, walker, taken, queued>>
      /\ client.pc = "write" /\ n < CmdWords[c]
      /\ client' = [client EXCEPT !.word = n + 1]
      /\ mem' = [mem EXCEPT ![a] = Word(c, n)]
  BY DEF InsertCommandKM
<1>2. c \in Commands /\ n \in Nat /\ client \in [pc : {"write"}, cmd : Commands, word : Nat]
  BY <1>1 DEF TypeOK
<1>3. /\ client'.pc = "write" /\ client'.cmd = c /\ client'.word = n + 1
      /\ client' \in [pc : {"write"}, cmd : Commands, word : Nat]
  BY <1>1, <1>2
<1>4. a \in 0 .. AllocSize - 1
  <2>1. Size(c) <= MaxCmdSize /\ writeOffset \in 0 .. QueueSize - 1
    BY <1>1 DEF WriterFits, TypeOK
  <2> QED BY <1>1, <1>2, <2>1, SizeType, SizesAssumption DEF AllocSize
<1>5. TypeOK'
  <2>1. Word(c, n) \in Cell
    BY <1>2 DEF Word, Cell
  <2>2. mem' \in [0 .. AllocSize - 1 -> Cell]
    BY <1>1, <2>1 DEF TypeOK, AllocSize
  <2> QED BY <1>1, <1>3, <2>2 DEF TypeOK, AllocSize
<1>6. PlaceInv' /\ ReaderHonest'
  BY <1>1 DEF PlaceInv, InRing, InOrder, FirstAtRead, Adjacent, EmptyIsEqual, FitBehind,
              ReaderHonest, Dist
<1>7. CommandsIntact'
  <2> SUFFICES ASSUME NEW i \in DOMAIN queued, NEW k \in 0 .. CmdWords[queued[i].cmd] - 1
               PROVE  mem'[queued[i].at + 4 * k] = Word(queued[i].cmd, k)
    BY <1>1 DEF CommandsIntact
  <2>1. queued[i].cmd \in Commands /\ queued[i].at \in 0 .. QueueSize - 1
    BY QueuedType
  <2>2. Size(queued[i].cmd) \in Nat /\ 4 * k \in Nat /\ 4 * k < Size(queued[i].cmd)
    BY <2>1, SizeType
  <2>3. Size(c) \in Nat /\ 4 * n \in Nat /\ 4 * n < Size(c)
    BY <1>1, <1>2, SizeType
  <2>4. Dist(queued[i].at) + Size(queued[i].cmd) <= Dist(writeOffset)
    BY DEF PlaceInv, InRing
  <2>5. Dist(writeOffset) + Size(c) < QueueSize
    BY <1>1 DEF WriterFits
  <2>6. queued[i].at + 4 * k # a
    BY <2>1, <2>2, <2>3, <2>4, <2>5, Apart
  <2>7. FitBehind /\ queued[i].at + 4 * k \in 0 .. AllocSize - 1
    BY <2>1, <2>2, SizesAssumption DEF PlaceInv, FitBehind, AllocSize
  <2>8. mem[queued[i].at + 4 * k] = Word(queued[i].cmd, k)
    BY DEF CommandsIntact
  <2>9. mem \in [0 .. AllocSize - 1 -> Cell]
    BY DEF TypeOK
  <2> QED BY <1>1, <2>6, <2>7, <2>8, <2>9
<1>8. WriterFits'
  <2>1. \A k \in 0 .. n : mem'[writeOffset + 4 * k] = Word(c, k)
    <3> TAKE k \in 0 .. n
    <3>1. mem \in [0 .. AllocSize - 1 -> Cell] /\ writeOffset \in Nat
      BY DEF TypeOK
    <3>2. CASE k = n
      BY <1>1, <1>4, <3>1, <3>2
    <3>3. CASE k # n
      <4>1. k \in 0 .. n - 1 /\ mem[writeOffset + 4 * k] = Word(c, k)
        BY <1>1, <1>2, <3>3 DEF WriterFits
      <4>2. writeOffset + 4 * k # a /\ writeOffset + 4 * k \in 0 .. AllocSize - 1
        BY <1>2, <1>4, <3>1, <4>1, SizesAssumption DEF AllocSize
      <4> QED BY <1>1, <3>1, <4>1, <4>2
    <3> QED BY <3>2, <3>3
  <2>2. n + 1 <= CmdWords[c]
    BY <1>1, <1>2, SizeType
  <2>3. Size(c) <= MaxCmdSize /\ Dist(writeOffset) + Size(c) < QueueSize
    BY <1>1 DEF WriterFits
  <2>4. Dist(writeOffset)' = Dist(writeOffset) /\ writeOffset' = writeOffset
    BY <1>1 DEF Dist
  <2>5. 0 .. (n + 1) - 1 = 0 .. n
    BY <1>2
  <2> QED BY <1>3, <2>1, <2>2, <2>3, <2>4, <2>5 DEF WriterFits
<1> QED BY <1>5, <1>6, <1>7, <1>8

(* A client submits its command: it comes after all the others.             *)
LEMMA SubmitKeeps ==
  ASSUME RingInv, SubmitCommandKM
  PROVE  RingInv'
<1> USE DEF RingInv
<1> DEFINE c == client.cmd
           n == Len(queued)
           new == [cmd |-> c, at |-> writeOffset]
<1>1. /\ UNCHANGED <<readOffset, mem, walker, taken>>
      /\ client.pc = "write" /\ client.word = CmdWords[c]
      /\ writeOffset' = Wrap(writeOffset + Size(c))
      /\ queued' = Append(queued, new)
      /\ client' = Idle
  BY DEF SubmitCommandKM
<1>2. c \in Commands /\ Size(c) \in Nat /\ Size(c) >= 4
  BY <1>1, SizeType DEF TypeOK
<1>3. writeOffset \in 0 .. QueueSize - 1 /\ readOffset \in 0 .. QueueSize - 1
  BY DEF TypeOK
<1>4. queued \in Seq(Queued) /\ new \in Queued /\ n \in Nat
  BY <1>2, <1>3 DEF TypeOK, Queued
<1>5. /\ DOMAIN queued' = 1 .. n + 1 /\ DOMAIN queued = 1 .. n /\ Len(queued') = n + 1
      /\ queued' \in Seq(Queued)
      /\ \A i \in 1 .. n : queued'[i] = queued[i]
      /\ queued'[n + 1] = new /\ queued'[n + 1].cmd = c /\ queued'[n + 1].at = writeOffset
      /\ queued' # <<>>
  <2>1. new.cmd = c /\ new.at = writeOffset
    OBVIOUS
  <2> HIDE DEF new, n
  <2>2. n = Len(queued)
    BY DEF n
  <2> QED BY <1>1, <1>4, <2>1, <2>2, AppendFacts
<1>6. writeOffset' \in 0 .. QueueSize - 1
  <2>1. writeOffset + Size(c) \in Nat
    BY <1>2, <1>3
  <2> QED BY <1>1, <2>1, WrapRange
<1>7. TypeOK'
  BY <1>1, <1>5, <1>6 DEF TypeOK, Idle, AllocSize, Queued
<1>8. Dist(writeOffset) + Size(c) < QueueSize /\ Size(c) <= MaxCmdSize
  BY <1>1 DEF WriterFits
<1>9. DistFrom(readOffset, writeOffset') = DistFrom(readOffset, writeOffset) + Size(c)
  BY <1>1, <1>2, <1>3, <1>8, DistUp DEF Dist
<1>10. \A i \in 1 .. n : /\ queued[i].cmd \in Commands /\ queued[i].at \in 0 .. QueueSize - 1
                          /\ DistFrom(readOffset, queued[i].at) \in Nat
                          /\ Size(queued[i].cmd) \in Nat
                          /\ DistFrom(readOffset, queued[i].at) + Size(queued[i].cmd)
                                 <= DistFrom(readOffset, writeOffset)
                          /\ Size(queued[i].cmd) <= MaxCmdSize
  <2> TAKE i \in 1 .. n
  <2>1. queued[i].cmd \in Commands /\ queued[i].at \in 0 .. QueueSize - 1
    BY <1>5, QueuedType
  <2>2. DistFrom(readOffset, queued[i].at) \in Nat /\ Size(queued[i].cmd) \in Nat
    <3>1. Size(queued[i].cmd) \in Nat
      BY <2>1, SizeType
    <3>2. DistFrom(readOffset, queued[i].at) \in 0 .. QueueSize - 1
      BY <1>3, <2>1, DistType
    <3> QED BY <3>1, <3>2, SizesAssumption
  <2>3. Size(queued[i].cmd) <= MaxCmdSize
    BY <1>5 DEF PlaceInv, FitBehind
  <2>4. DistFrom(readOffset, queued[i].at) + Size(queued[i].cmd)
            <= DistFrom(readOffset, writeOffset)
    BY <1>5 DEF PlaceInv, InRing, Dist
  <2> QED BY <2>1, <2>2, <2>3, <2>4
<1>11. DistFrom(readOffset, writeOffset) \in 0 .. QueueSize - 1
  BY <1>3, DistType
<1>12. InRing'
  <2> SUFFICES ASSUME NEW i \in 1 .. n + 1
               PROVE  DistFrom(readOffset, queued'[i].at) + Size(queued'[i].cmd)
                          <= DistFrom(readOffset, writeOffset')
    BY <1>1, <1>5 DEF InRing, Dist
  <2>1. CASE i \in 1 .. n
    BY <1>2, <1>5, <1>9, <1>10, <1>11, <2>1, SizesAssumption
  <2>2. CASE i = n + 1
    BY <1>2, <1>5, <1>9, <1>11, <2>2, SizesAssumption
  <2> QED BY <1>4, <2>1, <2>2
<1>13. InOrder'
  <2> SUFFICES ASSUME NEW i \in 1 .. n + 1, NEW j \in 1 .. n + 1, i < j
               PROVE  DistFrom(readOffset, queued'[i].at) + Size(queued'[i].cmd)
                          <= DistFrom(readOffset, queued'[j].at)
    BY <1>1, <1>5 DEF InOrder, Dist
  <2>0. i \in 1 .. n
    BY <1>4
  <2>1. CASE j \in 1 .. n
    BY <1>5, <2>0, <2>1 DEF PlaceInv, InOrder, Dist
  <2>2. CASE j = n + 1
    BY <1>5, <1>10, <2>0, <2>2
  <2> QED BY <1>4, <2>1, <2>2
<1>14. FirstAtRead'
  <2>1. CASE n = 0
    <3>1. queued = <<>> /\ queued'[1].at = writeOffset
      BY <1>4, <1>5, <2>1
    <3> QED BY <1>1, <3>1 DEF PlaceInv, EmptyIsEqual, FirstAtRead
  <2>2. CASE n # 0
    <3>1. queued # <<>> /\ queued'[1] = queued[1]
      BY <1>4, <1>5, <2>2
    <3> QED BY <1>1, <3>1 DEF PlaceInv, FirstAtRead
  <2> QED BY <2>1, <2>2
<1>15. Adjacent'
  <2> SUFFICES ASSUME NEW i \in 1 .. n + 1
               PROVE  Wrap(queued'[i].at + Size(queued'[i].cmd))
                          = IF i = n + 1 THEN writeOffset' ELSE queued'[i + 1].at
    BY Zenon, <1>5 DEF Adjacent
  <2>1. CASE i = n + 1
    BY <1>1, <1>5, <2>1
  <2>2. CASE i \in 1 .. n
    <3>1. Wrap(queued[i].at + Size(queued[i].cmd))
             = IF i = n THEN writeOffset ELSE queued[i + 1].at
      BY Zenon, <1>5, <2>2 DEF PlaceInv, Adjacent
    <3>2. queued'[i] = queued[i] /\ i # n + 1
      BY <1>4, <1>5, <2>2
    <3>3. queued'[i + 1].at = IF i = n THEN writeOffset ELSE queued[i + 1].at
      <4>1. CASE i = n
        BY Zenon, <1>5, <4>1
      <4>2. CASE i # n
        <5>1. i + 1 \in 1 .. n
          BY <1>4, <2>2, <4>2
        <5> QED BY Zenon, <1>5, <4>2, <5>1
      <4> QED BY <4>1, <4>2
    <3> QED BY <3>1, <3>2, <3>3
  <2> QED BY <1>4, <2>1, <2>2
<1>16. FitBehind'
  <2> SUFFICES ASSUME NEW i \in 1 .. n + 1 PROVE Size(queued'[i].cmd) <= MaxCmdSize
    BY <1>5 DEF FitBehind
  <2>1. CASE i \in 1 .. n
    BY <1>5, <1>10, <2>1
  <2>2. CASE i = n + 1
    BY <1>5, <1>8, <2>2
  <2> QED BY <1>4, <2>1, <2>2
<1>17. PlaceInv'
  BY <1>5, <1>12, <1>13, <1>14, <1>15, <1>16 DEF PlaceInv, EmptyIsEqual
<1>18. CommandsIntact'
  <2> SUFFICES ASSUME NEW i \in 1 .. n + 1, NEW k \in 0 .. CmdWords[queued'[i].cmd] - 1
               PROVE  mem[queued'[i].at + 4 * k] = Word(queued'[i].cmd, k)
    BY <1>1, <1>5 DEF CommandsIntact
  <2>1. CASE i \in 1 .. n
    BY <1>5, <2>1 DEF CommandsIntact
  <2>2. CASE i = n + 1
    <3>1. queued'[i].at = writeOffset /\ queued'[i].cmd = c /\ k \in 0 .. client.word - 1
      BY <1>1, <1>5, <2>2
    <3> QED BY <1>1, <3>1 DEF WriterFits
  <2> QED BY <1>4, <2>1, <2>2
<1>19. WriterFits'
  BY <1>1 DEF WriterFits, Idle
<1>20. ReaderHonest'
  <2> SUFFICES ASSUME walker.pc = "read"
               PROVE  /\ queued' # <<>>
                      /\ Len(walker.got) <= CmdWords[queued'[1].cmd]
                      /\ \A k \in 1 .. Len(walker.got) :
                             walker.got[k] = Word(queued'[1].cmd, k - 1)
    BY <1>1 DEF ReaderHonest
  <2>1. queued # <<>>
    BY DEF ReaderHonest
  <2>2. queued'[1] = queued[1]
    BY <1>4, <1>5, <2>1
  <2> QED BY <1>5, <2>2 DEF ReaderHonest
<1> QED BY <1>7, <1>17, <1>18, <1>19, <1>20

(* The walker begins with the first command, which there is.                *)
LEMMA ProcessQueuesKeeps ==
  ASSUME RingInv, ProcessQueues
  PROVE  RingInv'
<1> USE DEF RingInv
<1>1. /\ UNCHANGED <<readOffset, writeOffset, mem, client, taken, queued>>
      /\ walker' = [pc |-> "read", got |-> <<>>] /\ readOffset # writeOffset
  BY DEF ProcessQueues
<1>2. TypeOK'
  <2>1. walker' \in [pc : {"read"}, got : Seq(Cell)]
    BY <1>1
  <2> QED BY <1>1, <2>1 DEF TypeOK, AllocSize
<1>3. PlaceInv' /\ CommandsIntact' /\ WriterFits'
  BY <1>1 DEF PlaceInv, InRing, InOrder, FirstAtRead, Adjacent, EmptyIsEqual, FitBehind,
              CommandsIntact, WriterFits, Dist
<1>4. ReaderHonest'
  <2>1. queued # <<>>
    BY <1>1 DEF PlaceInv, EmptyIsEqual
  <2>2. queued[1].cmd \in Commands
    BY <2>1, TailFacts, QueuedType DEF TypeOK
  <2>3. 0 <= CmdWords[queued[1].cmd]
    BY <2>2, SizeType
  <2>4. walker'.got = <<>> /\ Len(walker'.got) = 0
    BY <1>1
  <2> QED BY <1>1, <2>1, <2>3, <2>4 DEF ReaderHonest
<1> QED BY <1>2, <1>3, <1>4

LEMMA LeaveKeeps ==
  ASSUME RingInv, LeaveQueue
  PROVE  RingInv'
<1> USE DEF RingInv
<1>1. UNCHANGED <<readOffset, writeOffset, mem, client, taken, queued>> /\ walker' = Idle
  BY DEF LeaveQueue
<1>2. TypeOK'
  BY <1>1 DEF TypeOK, AllocSize, Idle
<1>3. PlaceInv' /\ CommandsIntact' /\ WriterFits' /\ ReaderHonest'
  BY <1>1 DEF PlaceInv, InRing, InOrder, FirstAtRead, Adjacent, EmptyIsEqual, FitBehind,
              CommandsIntact, WriterFits, ReaderHonest, Dist, Idle
<1> QED BY <1>2, <1>3

(* The first command of the queue while the walker reads it.                *)
LEMMA FirstCommand ==
  ASSUME RingInv, walker.pc = "read"
  PROVE  /\ queued # <<>> /\ 1 \in DOMAIN queued
         /\ queued[1].cmd \in Commands /\ queued[1].at = readOffset
         /\ walker.got \in Seq(Cell) /\ walker \in [pc : {"read"}, got : Seq(Cell)]
         /\ walker.got # <<>> => walker.got[1].cmd = queued[1].cmd
         /\ \A k \in 0 .. CmdWords[queued[1].cmd] - 1 :
                mem[readOffset + 4 * k] = Word(queued[1].cmd, k)
<1> USE DEF RingInv
<1>1. queued # <<>> /\ queued[1].at = readOffset
  BY DEF ReaderHonest, PlaceInv, FirstAtRead
<1>2. 1 \in DOMAIN queued
  BY <1>1, TailFacts DEF TypeOK
<1>3. queued[1].cmd \in Commands
  BY <1>2, QueuedType
<1>4. walker \in [pc : {"read"}, got : Seq(Cell)]
  BY DEF TypeOK
<1>5. walker.got # <<>> => walker.got[1] = Word(queued[1].cmd, 0)
  <2>1. walker.got # <<>> => 1 \in 1 .. Len(walker.got)
    BY <1>4
  <2>2. walker.got # <<>> => walker.got[1] = Word(queued[1].cmd, 1 - 1)
    BY <2>1 DEF ReaderHonest
  <2> QED BY <2>2
<1>6. \A k \in 0 .. CmdWords[queued[1].cmd] - 1 :
          mem[readOffset + 4 * k] = Word(queued[1].cmd, k)
  BY <1>1, <1>2 DEF CommandsIntact
<1> QED BY <1>1, <1>2, <1>3, <1>4, <1>5, <1>6 DEF Word

(* The walker reads a word.                                                 *)
LEMMA ProcessCommandKeeps ==
  ASSUME RingInv, ProcessCommand
  PROVE  RingInv'
<1> DEFINE c == queued[1].cmd
           n == Len(walker.got)
<1>1. /\ UNCHANGED <<readOffset, writeOffset, mem, client, taken, queued>>
      /\ walker.pc = "read"
      /\ walker.got # <<>> => n < CmdWords[walker.got[1].cmd]
      /\ walker' = [walker EXCEPT !.got = Append(@, mem[readOffset + 4 * n])]
  BY DEF ProcessCommand
<1>2. /\ queued # <<>> /\ c \in Commands
      /\ walker.got \in Seq(Cell) /\ walker \in [pc : {"read"}, got : Seq(Cell)]
      /\ walker.got # <<>> => walker.got[1].cmd = c
      /\ \A k \in 0 .. CmdWords[c] - 1 : mem[readOffset + 4 * k] = Word(c, k)
  BY <1>1, FirstCommand
<1>3. n \in Nat /\ n < CmdWords[c] /\ CmdWords[c] \in Nat
  <2>1. CmdWords[c] \in Nat \ {0}
    BY <1>2, SizeType
  <2>2. n \in Nat /\ (walker.got = <<>> => n = 0)
    BY <1>2
  <2> QED BY <1>1, <1>2, <2>1, <2>2
<1>4. mem[readOffset + 4 * n] = Word(c, n) /\ Word(c, n) \in Cell
  <2>1. n \in 0 .. CmdWords[c] - 1
    BY <1>3
  <2>2. Word(c, n) \in Cell
    BY <1>2, <1>3 DEF Word, Cell
  <2> HIDE DEF n, c
  <2> QED BY <1>2, <2>1, <2>2
<1>5. walker'.pc = "read" /\ walker'.got = Append(walker.got, Word(c, n))
      /\ walker' = [pc |-> "read", got |-> Append(walker.got, Word(c, n))]
  BY <1>1, <1>2, <1>4
<1>6. /\ Append(walker.got, Word(c, n)) \in Seq(Cell)
      /\ Len(Append(walker.got, Word(c, n))) = n + 1
      /\ \A k \in 1 .. n : Append(walker.got, Word(c, n))[k] = walker.got[k]
      /\ Append(walker.got, Word(c, n))[n + 1] = Word(c, n)
  <2>1. Word(c, n) \in Cell /\ walker.got \in Seq(Cell) /\ n = Len(walker.got)
    BY <1>2, <1>4
  <2> HIDE DEF n, c
  <2> QED BY <2>1, AppendFacts
<1>7. TypeOK'
  <2>1. walker' \in [pc : {"read"}, got : Seq(Cell)]
    BY <1>5, <1>6
  <2> QED BY <1>1, <2>1 DEF RingInv, TypeOK, AllocSize
<1>8. PlaceInv' /\ CommandsIntact' /\ WriterFits'
  BY <1>1 DEF RingInv, PlaceInv, InRing, InOrder, FirstAtRead, Adjacent, EmptyIsEqual,
              FitBehind, CommandsIntact, WriterFits, Dist
<1>9. ReaderHonest'
  <2>1. n + 1 <= CmdWords[c]
    BY <1>3
  <2>2. \A k \in 1 .. n + 1 : walker'.got[k] = Word(c, k - 1)
    <3> TAKE k \in 1 .. n + 1
    <3>1. CASE k = n + 1
      <4>1. k - 1 = n
        BY <1>3, <3>1
      <4> QED BY <1>5, <1>6, <3>1, <4>1
    <3>2. CASE k # n + 1
      <4>1. k \in 1 .. n
        BY <1>3, <3>2
      <4>2. walker.got[k] = Word(c, k - 1)
        BY <1>1, <4>1 DEF RingInv, ReaderHonest
      <4> QED BY <1>5, <1>6, <4>1, <4>2
    <3> QED BY <3>1, <3>2
  <2>3. Len(walker'.got) = n + 1
    BY <1>5, <1>6
  <2>4. queued' = queued
    BY <1>1
  <2> QED BY <1>2, <2>1, <2>2, <2>3, <2>4 DEF ReaderHonest
<1> QED BY <1>7, <1>8, <1>9 DEF RingInv

(* The first command is done with.  All distances shrink by its size.       *)
LEMMA ProcessedKeeps ==
  ASSUME RingInv, CommandProcessed
  PROVE  /\ RingInv'
         /\ queued # <<>> /\ queued' = Tail(queued)
         /\ taken' = Contents(queued[1].cmd)
<1> DEFINE c == queued[1].cmd
           n == Len(queued)
<1>1. /\ UNCHANGED <<writeOffset, mem, client>>
      /\ walker.pc = "read" /\ walker.got # <<>>
      /\ Len(walker.got) = CmdWords[walker.got[1].cmd]
      /\ readOffset' = Wrap(readOffset + Size(mem[readOffset].cmd))
      /\ taken' = walker.got /\ queued' = Tail(queued) /\ walker' = Idle
  BY DEF CommandProcessed
<1>2. /\ queued # <<>> /\ 1 \in DOMAIN queued
      /\ c \in Commands /\ queued[1].at = readOffset
      /\ walker.got \in Seq(Cell) /\ walker.got[1].cmd = c
      /\ \A k \in 0 .. CmdWords[c] - 1 : mem[readOffset + 4 * k] = Word(c, k)
  BY <1>1, FirstCommand
<1>3. /\ writeOffset \in 0 .. QueueSize - 1 /\ readOffset \in 0 .. QueueSize - 1
      /\ queued \in Seq(Queued)
  BY DEF RingInv, TypeOK, Queued
<1>4. Size(c) \in Nat /\ Size(c) >= 4 /\ CmdWords[c] \in Nat \ {0}
  BY <1>2, SizeType
<1>5. readOffset' = Wrap(readOffset + Size(c)) /\ readOffset' \in 0 .. QueueSize - 1
  <2>1. 0 \in 0 .. CmdWords[c] - 1 /\ readOffset + 4 * 0 = readOffset
    BY <1>3, <1>4
  <2>2. mem[readOffset] = Word(c, 0)
    BY <1>2, <2>1
  <2>3. mem[readOffset].cmd = c
    BY <2>2 DEF Word
  <2>4. readOffset + Size(c) \in Nat
    BY <1>3, <1>4
  <2> QED BY <1>1, <2>3, <2>4, WrapRange
<1>6. /\ queued' \in Seq(Queued) /\ n \in Nat \ {0} /\ DOMAIN queued = 1 .. n
      /\ Len(queued') = n - 1 /\ DOMAIN queued' = 1 .. n - 1
      /\ \A i \in 1 .. n - 1 : queued'[i] = queued[i + 1]
      /\ queued' = <<>> <=> n = 1
  BY <1>1, <1>2, <1>3, TailFacts
<1>7. TypeOK'
  BY <1>1, <1>2, <1>5, <1>6 DEF RingInv, TypeOK, Idle, AllocSize, Queued
(* Distances before and after.                                              *)
<1>8. \A i \in 1 .. n : queued[i].cmd \in Commands /\ queued[i].at \in 0 .. QueueSize - 1
  BY <1>6, QueuedType DEF RingInv
<1>9. \A x \in 0 .. QueueSize - 1 :
         Size(c) <= DistFrom(readOffset, x) =>
            DistFrom(readOffset', x) = DistFrom(readOffset, x) - Size(c)
  BY <1>3, <1>4, <1>5, DistDown
<1>10. \A x \in 0 .. QueueSize - 1 : DistFrom(readOffset, x) \in Nat
  BY <1>3, DistType, SizesAssumption
<1>11. \A i \in 1 .. n : 1 < i => Size(c) <= DistFrom(readOffset, queued[i].at)
  <2> SUFFICES ASSUME NEW i \in 1 .. n, 1 < i
               PROVE  Size(c) <= DistFrom(readOffset, queued[i].at)
    OBVIOUS
  <2>1. Dist(queued[1].at) + Size(c) <= Dist(queued[i].at)
    BY <1>2, <1>6 DEF RingInv, PlaceInv, InOrder
  <2>2. DistFrom(readOffset, queued[1].at) \in Nat /\ DistFrom(readOffset, queued[i].at) \in Nat
    BY <1>2, <1>3, <1>8, <1>10
  <2> QED BY <1>4, <2>1, <2>2 DEF Dist
<1>12. Size(c) <= DistFrom(readOffset, writeOffset)
  <2>1. Dist(queued[1].at) + Size(c) <= Dist(writeOffset)
    BY <1>2 DEF RingInv, PlaceInv, InRing
  <2>2. DistFrom(readOffset, queued[1].at) \in Nat /\ DistFrom(readOffset, writeOffset) \in Nat
    BY <1>2, <1>3, <1>10
  <2> QED BY <1>4, <2>1, <2>2 DEF Dist
<1>13. DistFrom(readOffset', writeOffset) = DistFrom(readOffset, writeOffset) - Size(c)
  BY <1>3, <1>9, <1>12
<1>14. \A i \in 1 .. n - 1 :
          /\ i + 1 \in 1 .. n /\ queued'[i] = queued[i + 1]
          /\ DistFrom(readOffset', queued'[i].at)
                 = DistFrom(readOffset, queued[i + 1].at) - Size(c)
          /\ DistFrom(readOffset, queued[i + 1].at) \in Nat
          /\ Size(queued[i + 1].cmd) \in Nat
  <2> SUFFICES ASSUME NEW i \in 1 .. n - 1
               PROVE  /\ i + 1 \in 1 .. n /\ queued'[i] = queued[i + 1]
                      /\ DistFrom(readOffset', queued'[i].at)
                             = DistFrom(readOffset, queued[i + 1].at) - Size(c)
                      /\ DistFrom(readOffset, queued[i + 1].at) \in Nat
                      /\ Size(queued[i + 1].cmd) \in Nat
    OBVIOUS
  <2>1. i + 1 \in 1 .. n /\ 1 < i + 1 /\ queued'[i] = queued[i + 1]
    BY <1>6
  <2>2. /\ queued[i + 1].at \in 0 .. QueueSize - 1
        /\ Size(c) <= DistFrom(readOffset, queued[i + 1].at)
        /\ Size(queued[i + 1].cmd) \in Nat
    BY <1>8, <1>11, <2>1, SizeType
  <2> QED BY <1>9, <1>10, <2>1, <2>2
<1>15. InRing'
  <2> SUFFICES ASSUME NEW i \in 1 .. n - 1
               PROVE  DistFrom(readOffset', queued'[i].at) + Size(queued'[i].cmd)
                          <= DistFrom(readOffset', writeOffset)
    BY <1>1, <1>6 DEF InRing, Dist
  <2>1. DistFrom(readOffset, queued[i + 1].at) + Size(queued[i + 1].cmd)
            <= DistFrom(readOffset, writeOffset)
    BY <1>6, <1>14 DEF RingInv, PlaceInv, InRing, Dist
  <2>2. DistFrom(readOffset, writeOffset) \in Nat
    BY <1>3, <1>10
  <2> QED BY <1>4, <1>13, <1>14, <2>1, <2>2
<1>16. InOrder'
  <2> SUFFICES ASSUME NEW i \in 1 .. n - 1, NEW j \in 1 .. n - 1, i < j
               PROVE  DistFrom(readOffset', queued'[i].at) + Size(queued'[i].cmd)
                          <= DistFrom(readOffset', queued'[j].at)
    BY <1>1, <1>6 DEF InOrder, Dist
  <2>1. i + 1 < j + 1 /\ i + 1 \in DOMAIN queued /\ j + 1 \in DOMAIN queued
    BY <1>6, <1>14
  <2>2. DistFrom(readOffset, queued[i + 1].at) + Size(queued[i + 1].cmd)
            <= DistFrom(readOffset, queued[j + 1].at)
    BY <2>1 DEF RingInv, PlaceInv, InOrder, Dist
  <2>3. /\ queued'[i] = queued[i + 1]
        /\ DistFrom(readOffset', queued'[i].at) = DistFrom(readOffset, queued[i + 1].at) - Size(c)
        /\ DistFrom(readOffset', queued'[j].at) = DistFrom(readOffset, queued[j + 1].at) - Size(c)
        /\ DistFrom(readOffset, queued[i + 1].at) \in Nat /\ DistFrom(readOffset, queued[j + 1].at) \in Nat
        /\ Size(queued[i + 1].cmd) \in Nat
    BY Zenon, <1>14
  <2> HIDE DEF c, n
  <2>4. Size(c) \in Nat /\ Size(queued'[i].cmd) = Size(queued[i + 1].cmd)
    BY <1>4, <2>3
  <2> QED BY <2>2, <2>3, <2>4
(* The next command begins where the first one ended.                       *)
<1>17. Wrap(readOffset + Size(c)) = IF 1 = n THEN writeOffset ELSE queued[1 + 1].at
  BY <1>2 DEF RingInv, PlaceInv, Adjacent
<1>18. FirstAtRead'
  <2> SUFFICES ASSUME n # 1 PROVE queued'[1].at = readOffset'
    BY <1>6 DEF FirstAtRead
  <2>1. 1 \in 1 .. n - 1 /\ queued'[1] = queued[1 + 1]
    BY <1>6
  <2> QED BY <1>5, <1>17, <2>1
<1>19. EmptyIsEqual'
  <2> SUFFICES ASSUME n = 1 PROVE readOffset' = writeOffset
    BY <1>1, <1>6 DEF EmptyIsEqual
  <2> QED BY <1>5, <1>17
<1>20. Adjacent'
  <2> SUFFICES ASSUME NEW i \in 1 .. n - 1
               PROVE  Wrap(queued'[i].at + Size(queued'[i].cmd))
                          = IF i = n - 1 THEN writeOffset ELSE queued'[i + 1].at
    BY Zenon, <1>1, <1>6 DEF Adjacent
  <2>1. i + 1 \in DOMAIN queued /\ queued'[i] = queued[i + 1]
    BY <1>6, <1>14
  <2>2. Wrap(queued[i + 1].at + Size(queued[i + 1].cmd))
           = IF i + 1 = n THEN writeOffset ELSE queued[(i + 1) + 1].at
    BY <2>1 DEF RingInv, PlaceInv, Adjacent
  <2>3. i # n - 1 => queued'[i + 1] = queued[(i + 1) + 1]
    <3>0. n \in Nat
      BY <1>6
    <3>1. i # n - 1 => i + 1 \in 1 .. n - 1
      <4> HIDE DEF n
      <4> QED BY <3>0
    <3> QED BY Zenon, <1>6, <3>1
  <2>4. i + 1 = n <=> i = n - 1
    BY <1>6
  <2> QED BY <2>1, <2>2, <2>3, <2>4
<1>21. FitBehind'
  <2> SUFFICES ASSUME NEW i \in 1 .. n - 1 PROVE Size(queued'[i].cmd) <= MaxCmdSize
    BY <1>6 DEF FitBehind
  <2>1. i + 1 \in DOMAIN queued /\ queued'[i] = queued[i + 1]
    BY <1>6, <1>14
  <2> QED BY <2>1 DEF RingInv, PlaceInv, FitBehind
<1>22. CommandsIntact'
  <2> SUFFICES ASSUME NEW i \in 1 .. n - 1, NEW k \in 0 .. CmdWords[queued'[i].cmd] - 1
               PROVE  mem[queued'[i].at + 4 * k] = Word(queued'[i].cmd, k)
    BY <1>1, <1>6 DEF CommandsIntact
  <2>1. i + 1 \in DOMAIN queued /\ queued'[i] = queued[i + 1]
    BY <1>6, <1>14
  <2> QED BY <2>1 DEF RingInv, CommandsIntact
<1>23. WriterFits'
  <2> SUFFICES ASSUME client.pc = "write"
               PROVE  /\ Size(client.cmd) <= MaxCmdSize
                      /\ DistFrom(readOffset', writeOffset) + Size(client.cmd) < QueueSize
                      /\ client.word <= CmdWords[client.cmd]
                      /\ \A k \in 0 .. client.word - 1 :
                             mem[writeOffset + 4 * k] = Word(client.cmd, k)
    BY <1>1 DEF WriterFits, Dist
  <2>1. /\ Size(client.cmd) <= MaxCmdSize
        /\ client.word <= CmdWords[client.cmd]
        /\ \A k \in 0 .. client.word - 1 : mem[writeOffset + 4 * k] = Word(client.cmd, k)
        /\ DistFrom(readOffset, writeOffset) + Size(client.cmd) < QueueSize
    BY DEF RingInv, WriterFits, Dist
  <2>2. Size(client.cmd) \in Nat /\ DistFrom(readOffset, writeOffset) \in Nat
    <3>1. client.cmd \in Commands
      BY DEF RingInv, TypeOK
    <3> QED BY <1>3, <1>10, <3>1, SizeType
  <2> QED BY <1>4, <1>13, <2>1, <2>2, SizesAssumption
<1>24. ReaderHonest'
  BY <1>1 DEF ReaderHonest, Idle
<1>25. RingInv'
  BY <1>7, <1>15, <1>16, <1>18, <1>19, <1>20, <1>21, <1>22, <1>23, <1>24 DEF RingInv, PlaceInv
<1>26. walker.got = Contents(c)
  <2>1. Len(walker.got) = CmdWords[c] /\ DOMAIN walker.got = 1 .. CmdWords[c]
    BY <1>1, <1>2
  <2>2. \A k \in 1 .. CmdWords[c] : walker.got[k] = Word(c, k - 1)
    BY <1>1, <2>1 DEF RingInv, ReaderHonest
  <2>3. walker.got = [k \in DOMAIN walker.got |-> walker.got[k]]
    BY <1>2
  <2> QED BY <2>1, <2>2, <2>3 DEF Contents
<1> QED BY <1>1, <1>2, <1>25, <1>26

-----------------------------------------------------------------------------
LEMMA NextKeeps ==
  ASSUME RingInv, [Next]_vars
  PROVE  RingInv'
<1>1. CASE \E c \in Commands : GetQueueSpaceKM(c)
  BY <1>1, GetSpaceKeeps
<1>2. CASE InsertCommandKM
  BY <1>2, InsertKeeps
<1>3. CASE SubmitCommandKM
  BY <1>3, SubmitKeeps
<1>4. CASE ProcessQueues
  BY <1>4, ProcessQueuesKeeps
<1>5. CASE ProcessCommand
  BY <1>5, ProcessCommandKeeps
<1>6. CASE LeaveQueue
  BY <1>6, LeaveKeeps
<1>7. CASE CommandProcessed
  BY <1>7, ProcessedKeeps
<1>8. CASE UNCHANGED vars
  BY <1>8 DEF vars, RingInv, TypeOK, AllocSize, PlaceInv, InRing, InOrder, FirstAtRead,
              Adjacent, EmptyIsEqual, FitBehind, CommandsIntact, WriterFits, ReaderHonest, Dist
<1> QED BY <1>1, <1>2, <1>3, <1>4, <1>5, <1>6, <1>7, <1>8 DEF Next

LEMMA RingInvariant == Spec => []RingInv
<1>1. Init => RingInv
  BY InitInv
<1>2. RingInv /\ [Next]_vars => RingInv'
  BY NextKeeps
<1> QED BY <1>1, <1>2, PTL DEF Spec

(* The state keeps its type: in particular, offsets stay below the size of  *)
(* the ring.                                                                *)
THEOREM TypeCorrect == Spec => []TypeOK
<1>1. RingInv => TypeOK
  BY DEF RingInv
<1> QED BY <1>1, RingInvariant, PTL

(* No command that waits in the ring is written over while a client fills   *)
(* in the next one.                                                         *)
THEOREM CommandsStayIntact == Spec => []CommandsIntact
<1>1. RingInv => CommandsIntact
  BY DEF RingInv
<1> QED BY <1>1, RingInvariant, PTL

(* Equal offsets mean an empty queue.                                       *)
THEOREM EqualOffsetsMeanEmpty == Spec => []EqualMeansEmpty
<1>1. RingInv => EqualMeansEmpty
  <2> SUFFICES ASSUME RingInv, queued # <<>> PROVE readOffset # writeOffset
    BY DEF EqualMeansEmpty, RingInv, PlaceInv, EmptyIsEqual
  <2>1. queued \in Seq(Queued) /\ writeOffset \in 0 .. QueueSize - 1
        /\ readOffset \in 0 .. QueueSize - 1
    BY DEF RingInv, TypeOK, Queued
  <2>2. 1 \in DOMAIN queued
    BY <2>1, TailFacts
  <2>3. queued[1].cmd \in Commands /\ queued[1].at \in 0 .. QueueSize - 1
    BY <2>2, QueuedType DEF RingInv
  <2>4. DistFrom(readOffset, queued[1].at) + Size(queued[1].cmd)
            <= DistFrom(readOffset, writeOffset)
    BY <2>2 DEF RingInv, PlaceInv, InRing, Dist
  <2>5. DistFrom(readOffset, queued[1].at) \in Nat /\ Size(queued[1].cmd) >= 4
        /\ Size(queued[1].cmd) \in Nat
    <3>1. DistFrom(readOffset, queued[1].at) \in 0 .. QueueSize - 1
      BY <2>1, <2>3, DistType
    <3>2. Size(queued[1].cmd) >= 4 /\ Size(queued[1].cmd) \in Nat
      BY <2>3, SizeType
    <3> QED BY <3>1, <3>2, SizesAssumption
  <2>6. DistFrom(readOffset, writeOffset) \in Nat
    BY <2>1, DistType, SizesAssumption
  <2>7. DistFrom(readOffset, writeOffset) # 0
    BY <2>4, <2>5, <2>6
  <2> QED BY <2>1, <2>7, DistType
<1> QED BY <1>1, RingInvariant, PTL

(* A client writes to memory that was allocated.                            *)
THEOREM WritesInside == Spec => []WithinBuffer
<1>1. RingInv => WithinBuffer
  <2> SUFFICES ASSUME RingInv, client.pc = "write"
               PROVE  writeOffset + Size(client.cmd) <= AllocSize
    BY DEF WithinBuffer
  <2>1. client.cmd \in Commands /\ writeOffset \in 0 .. QueueSize - 1
    BY DEF RingInv, TypeOK
  <2>2. Size(client.cmd) <= MaxCmdSize /\ Size(client.cmd) \in Nat
    BY <2>1, SizeType DEF RingInv, WriterFits
  <2> QED BY <2>1, <2>2, SizesAssumption DEF AllocSize
<1> QED BY <1>1, RingInvariant, PTL

(* The ring implements the queue: every step of the ring is a submission,   *)
(* the taking of the first command as it was submitted, or nothing to an    *)
(* observer of the queue.                                                   *)
THEOREM RingIsFifo == Spec => ImplementsFifo
<1> DEFINE Abstract == [i \in DOMAIN queued |-> Contents(queued[i].cmd)]
<1>1. Init => Fifo!Init
  BY DEF Init, Fifo!Init
<1>2. RingInv /\ [Next]_vars => [Fifo!Next]_(Fifo!vars)
  <2> SUFFICES ASSUME RingInv, [Next]_vars PROVE Fifo!Next \/ UNCHANGED Fifo!vars
    BY DEF Fifo!Next, Fifo!vars
  <2>0. queued \in Seq(Queued)
    BY DEF RingInv, TypeOK, Queued
  <2>1. CASE UNCHANGED <<queued, taken>>
    BY <2>1 DEF Fifo!vars
  <2>2. CASE SubmitCommandKM
    <3> DEFINE c == client.cmd
               n == Len(queued)
               new == [cmd |-> c, at |-> writeOffset]
    <3>1. c \in Commands /\ writeOffset \in 0 .. QueueSize - 1
      BY <2>2 DEF SubmitCommandKM, RingInv, TypeOK
    <3>2. queued' = Append(queued, new) /\ taken' = taken
      BY <2>2 DEF SubmitCommandKM
    <3>3. new \in Queued
      BY <3>1 DEF Queued
    <3>4. /\ n \in Nat /\ DOMAIN queued = 1 .. n /\ DOMAIN queued' = 1 .. n + 1
          /\ \A i \in 1 .. n : queued'[i] = queued[i]
          /\ queued'[n + 1] = new /\ new.cmd = c
      BY <2>0, <3>2, <3>3, AppendFacts
    <3>5. Abstract' = Append(Abstract, Contents(c))
      <4>1. Abstract' = [i \in 1 .. n + 1 |-> Contents(queued'[i].cmd)]
        BY <3>4
      <4>2. Abstract = [i \in 1 .. n |-> Contents(queued[i].cmd)]
        BY <3>4
      <4>3. Len(Abstract) = n
        BY <3>4, <4>2
      <4>4. Append(Abstract, Contents(c))
               = [i \in 1 .. n + 1 |-> IF i = n + 1 THEN Contents(c) ELSE Abstract[i]]
        BY <3>4, <4>2, <4>3
      <4>5. \A i \in 1 .. n + 1 :
               Contents(queued'[i].cmd) = IF i = n + 1 THEN Contents(c) ELSE Abstract[i]
        <5> TAKE i \in 1 .. n + 1
        <5>1. CASE i = n + 1
          BY <3>4, <5>1
        <5>2. CASE i # n + 1
          <6>1. i \in 1 .. n
            BY <3>4, <5>2
          <6> QED BY <3>4, <4>2, <5>2, <6>1
        <5> QED BY <5>1, <5>2
      <4> QED BY <4>1, <4>4, <4>5
    <3>6. Fifo!Submit(Contents(c))
      BY <3>2, <3>5 DEF Fifo!Submit
    <3> QED BY <3>1, <3>6 DEF Fifo!Next
  <2>3. CASE CommandProcessed
    <3> DEFINE n == Len(queued)
    <3>1. queued # <<>> /\ queued' = Tail(queued) /\ taken' = Contents(queued[1].cmd)
      BY <2>3, ProcessedKeeps
    <3>2. /\ n \in Nat \ {0} /\ DOMAIN queued = 1 .. n /\ DOMAIN queued' = 1 .. n - 1
          /\ \A i \in 1 .. n - 1 : queued'[i] = queued[i + 1]
      BY <2>0, <3>1, TailFacts
    <3>3. Abstract = [i \in 1 .. n |-> Contents(queued[i].cmd)]
      BY <3>2
    <3>4. Len(Abstract) = n /\ Abstract # <<>> /\ Head(Abstract) = Contents(queued[1].cmd)
      BY <3>2, <3>3
    <3>5. Tail(Abstract) = [i \in 1 .. n - 1 |-> Abstract[i + 1]]
      BY <3>2, <3>3, <3>4
    <3>6. \A i \in 1 .. n - 1 : Contents(queued'[i].cmd) = Abstract[i + 1]
      BY <3>2, <3>3
    <3>7. Abstract' = Tail(Abstract)
      BY <3>2, <3>5, <3>6
    <3>8. Fifo!Take
      BY <3>1, <3>4, <3>7 DEF Fifo!Take
    <3> QED BY <3>8 DEF Fifo!Next
  <2>4. SubmitCommandKM \/ CommandProcessed \/ UNCHANGED <<queued, taken>>
    BY DEF Next, vars, GetQueueSpaceKM, InsertCommandKM, ProcessQueues, ProcessCommand,
           LeaveQueue
  <2> QED BY <2>1, <2>2, <2>3, <2>4
<1> QED BY <1>1, <1>2, RingInvariant, PTL DEF Spec, ImplementsFifo, Fifo!Spec

=============================================================================
