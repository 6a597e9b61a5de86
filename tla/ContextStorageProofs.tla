------------------------ MODULE ContextStorageProofs ------------------------
(***************************************************************************)
(* Proofs about ContextStorage, for any layout of the contexts and any     *)
(* number of stores: what a completed store wrote is there, and the        *)
(* storage implements ContextStore.                                        *)
(***************************************************************************)
EXTENDS ContextStorage, FiniteSetTheorems, TLAPS

-----------------------------------------------------------------------------
(* Assumptions about the stores of the store-and-forward context.          *)

\* A store fits in the page buffer with the padding in front of it; the code
\* copies it there without looking (smtc_modem_hal_storage.c:206-224).
SafFits == \A s \in SafSizes : s + WriteBlock <= Page + 1

\* A padded store always ends with a write block.
SafAligned ==
  \A s \in SafSizes, p \in 0..(WriteBlock - 1) :
    p + s <= WriteBlock \/ (p + s) % WriteBlock = 0

-----------------------------------------------------------------------------
(* The inductive invariant.                                                *)

Requests  == [from : Nat, size : Nat \ {0}, value : Values]
Rewriting == pc \in {"read", "erase", "write"}
Logging  == pc \in {"pad", "saf_write"}

\* The store in progress, which after its first page is at the start of a page,
\* and the last one.
Placed ==
  /\ request # None => request \in Requests
  /\ Logging => request.size \in SafSizes /\ request.from >= SafOffset
  /\ Rewriting => /\ done < request.size
                  /\ done = 0 \/ (request.from + done) % Page = 0
                  /\ request.from < SafOffset
  /\ pc # "idle" => last = None
  /\ last # None /\ last.from >= SafOffset => last.size \in SafSizes

\* The page buffer is the page with the data filled in, and nothing else.
Filled ==
  /\ pc = "erase" => \A i \in InPage :
       pageBuffer[i] = IF PageStart + i \in Chunk THEN request.value
                                                  ELSE flash[PageStart + i]
  /\ pc = "write" => \A i \in InPage :
       /\ flash[PageStart + i] = Erased
       /\ PageStart + i \in Chunk => pageBuffer[i] = request.value

\* The page buffer is the padded data, and the padding is what the flash holds.
Padded ==
  pc = "saf_write" => \A i \in InPage :
    i < SafSize => pageBuffer[i] = IF SafFrom + i \in Span(request) THEN request.value
                                                           ELSE flash[SafFrom + i]

\* The pages before the one in hand hold their part of the data.
Written ==
  Rewriting => \A a \in Span(request) : a < request.from + done => flash[a] = request.value

\* The flash takes the padded write.
Accepted(r) ==
  r.from >= SafOffset => LET n == r.size + (r.from % WriteBlock)
                         IN n < WriteBlock \/ n % WriteBlock = 0

\* What a completed store that the flash took wrote is what a restore reads.
TakenIsRestored ==
  last # None => /\ last \in Requests
                 /\ Accepted(last) => \A a \in Span(last) : flash[a] = last.value

IInv == TypeOK /\ Placed /\ Filled /\ Padded /\ Written /\ TakenIsRestored

-----------------------------------------------------------------------------
(* Arithmetic of blocks: y is the size of a page or of a write block.      *)

\* Quotient and remainder.
LEMMA DivMod ==
  ASSUME NEW x \in Nat, NEW y \in Nat \ {0}
  PROVE  x = (x \div y) * y + (x % y) /\ x \div y \in Nat /\ x % y \in 0..(y - 1)
  BY SMT

\* Quotient and remainder are unique.
LEMMA DivModUnique ==
  ASSUME NEW x \in Nat, NEW y \in Nat \ {0}, NEW q \in Nat, NEW r \in Nat,
         r < y, x = q * y + r
  PROVE  x % y = r /\ x \div y = q
  BY SMT

\* Blocks lie one after the other.
LEMMA MulOrder ==
  ASSUME NEW i \in Nat, NEW j \in Nat, NEW y \in Nat \ {0}
  PROVE  /\ i <= j <=> i * y <= j * y
         /\ i < j <=> i * y + y <= j * y
<1>1. i <= j => i * y <= j * y
  <2> SUFFICES ASSUME i <= j PROVE i * y <= j * y
    OBVIOUS
  <2>1. PICK d \in Nat : j = i + d
    <3>1. j - i \in Nat /\ j = i + (j - i)
      OBVIOUS
    <3> QED
      BY <3>1
  <2>2. j * y = i * y + d * y /\ d * y >= 0
    BY <2>1, SMT
  <2> QED
    BY <2>2
<1>2. j < i => j * y + y <= i * y
  <2> SUFFICES ASSUME j < i PROVE j * y + y <= i * y
    OBVIOUS
  <2>1. PICK d \in Nat : i = j + 1 + d
    <3>1. i - j - 1 \in Nat /\ i = j + 1 + (i - j - 1)
      OBVIOUS
    <3> QED
      BY <3>1
  <2>2. i * y = j * y + y + d * y /\ d * y >= 0
    BY <2>1, SMT
  <2> QED
    BY <2>2
<1>3. i < j => i * y + y <= j * y
  <2> SUFFICES ASSUME i < j PROVE i * y + y <= j * y
    OBVIOUS
  <2>1. PICK d \in Nat : j = i + 1 + d
    <3>1. j - i - 1 \in Nat /\ j = i + 1 + (j - i - 1)
      OBVIOUS
    <3> QED
      BY <3>1
  <2>2. j * y = i * y + y + d * y /\ d * y >= 0
    BY <2>1, SMT
  <2> QED
    BY <2>2
<1>4. i * y \in Nat /\ j * y \in Nat
  BY SMT
<1> QED
  BY <1>1, <1>2, <1>3, <1>4

\* The start of the block x is in.
Start(x, y) == x - (x % y)

LEMMA StartOfBlock ==
  ASSUME NEW x \in Nat, NEW y \in Nat \ {0}
  PROVE  /\ Start(x, y) \in Nat /\ Start(x, y) <= x /\ x < Start(x, y) + y
         /\ Start(x, y) = (x \div y) * y
         /\ Start(x, y) % y = 0
         /\ (Start(x, y) + y) % y = 0
<1>1. x = (x \div y) * y + (x % y) /\ x \div y \in Nat /\ x % y \in 0..(y - 1)
  BY DivMod
<1> DEFINE q == x \div y  r == x % y
<1> HIDE DEF q, r
<1>2. x = q * y + r /\ q \in Nat /\ r \in 0..(y - 1) /\ q * y \in Nat
  <2>1. x = q * y + r /\ q \in Nat /\ r \in 0..(y - 1)
    BY <1>1 DEF q, r
  <2> QED
    BY <2>1, SMT
<1>3. Start(x, y) = q * y
  <2>1. Start(x, y) = x - r
    BY DEF Start, r
  <2> QED
    BY <2>1, <1>2
<1>4. (q * y) % y = 0
  BY <1>2, DivModUnique
<1>5. (q * y + y) % y = 0
  <2>1. q * y + y = (q + 1) * y + 0 /\ q * y + y \in Nat /\ q + 1 \in Nat
    BY <1>2, SMT
  <2> QED
    BY <2>1, DivModUnique
<1> QED
  BY <1>2, <1>3, <1>4, <1>5 DEF q

\* The block of an address ends where the area does, or before.
LEMMA BlockInArea ==
  ASSUME NEW x \in Nat, NEW y \in Nat \ {0}, NEW z \in Nat, x < z, z % y = 0
  PROVE  Start(x, y) + y <= z
<1> DEFINE i == x \div y  j == z \div y
<1>1. z = j * y /\ j \in Nat
  BY DivMod
<1>2. Start(x, y) = i * y /\ i \in Nat /\ Start(x, y) <= x /\ Start(x, y) \in Nat
  BY StartOfBlock, DivMod
<1> HIDE DEF i, j
<1>3. i < j
  <2>1. i * y < j * y /\ i * y \in Nat /\ j * y \in Nat
    BY <1>1, <1>2
  <2>2. ~(j <= i)
    BY <2>1, <1>1, <1>2, MulOrder
  <2> QED
    BY <2>2, <1>1, <1>2
<1> QED
  BY <1>1, <1>2, <1>3, MulOrder

\* An address is in the block that starts at s if its block is that one.
LEMMA SameBlock ==
  ASSUME NEW a \in Nat, NEW b \in Nat, NEW y \in Nat \ {0}, NEW s \in Nat,
         s % y = 0, a \div y = b \div y, s <= a
  PROVE  s <= b
<1> DEFINE i == s \div y  j == a \div y
<1>1. s = i * y /\ i \in Nat
  BY DivMod
<1>2. a < j * y + y /\ j * y <= b /\ j \in Nat /\ j * y \in Nat
  <2>1. a < Start(a, y) + y /\ Start(a, y) = j * y /\ Start(a, y) \in Nat
    BY StartOfBlock
  <2>2. Start(b, y) = j * y /\ Start(b, y) <= b
    BY StartOfBlock
  <2> QED
    BY <2>1, <2>2, DivMod
<1> HIDE DEF i, j
<1>3. i <= j
  <2>1. ~(j * y + y <= i * y)
    BY <1>1, <1>2
  <2> QED
    BY <2>1, <1>1, <1>2, MulOrder
<1>4. i * y <= j * y
  BY <1>1, <1>2, <1>3, MulOrder
<1> QED
  BY <1>1, <1>2, <1>4

\* The addresses of a block are in the same block.
LEMMA OneBlock ==
  ASSUME NEW a \in Nat, NEW y \in Nat \ {0}, NEW s \in Nat,
         s % y = 0, s <= a, a < s + y
  PROVE  a \div y = s \div y
<1> DEFINE q == s \div y  r == a - s
<1>1. s = q * y /\ q \in Nat
  BY DivMod
<1>2. r \in Nat /\ r < y /\ a = s + r
  OBVIOUS
<1> HIDE DEF q, r
<1>3. a = q * y + r
  BY <1>1, <1>2
<1>4. a \div y = q
  BY <1>1, <1>2, <1>3, DivModUnique
<1> QED
  BY <1>4 DEF q

-----------------------------------------------------------------------------
(* The layout and the buffers.                                             *)

\* A multiple of a multiple is a multiple.
LEMMA MultipleOfMultiple ==
  ASSUME NEW x \in Nat, NEW y \in Nat \ {0}, NEW z \in Nat \ {0},
         x % y = 0, y % z = 0
  PROVE  x % z = 0
<1> DEFINE i == x \div y  j == y \div z
<1>1. x = i * y /\ i \in Nat
  BY DivMod
<1>2. y = j * z /\ j \in Nat
  BY DivMod
<1> HIDE DEF i, j
<1>3. x = (i * j) * z + 0 /\ i * j \in Nat
  BY <1>1, <1>2, SMT
<1> QED
  BY <1>3, DivModUnique

\* What is assumed about the flash area.
LEMMA Layout ==
  /\ Slot \in Nat \ {0} /\ FuotaOffset \in Nat \ {0} /\ SafOffset \in Nat \ {0}
  /\ AreaSize \in Nat \ {0} /\ Page \in Nat \ {0} /\ WriteBlock \in Nat \ {0}
  /\ 4 * Slot <= FuotaOffset /\ FuotaOffset < SafOffset /\ SafOffset < AreaSize
  /\ AreaSize % Page = 0 /\ AreaSize % WriteBlock = 0
  /\ Sizes \subseteq Nat \ {0} /\ SafSizes \subseteq Nat \ {0} /\ Erased \notin Values
  /\ MaxStores \in Nat
<1>1. Page \in Nat \ {0} /\ WriteBlock \in Nat \ {0} /\ AreaSize \in Nat
  BY ConstantsAssumption
<1>2. AreaSize % Page = 0 /\ Page % WriteBlock = 0
  BY ConstantsAssumption
<1>3. AreaSize % WriteBlock = 0
  BY <1>1, <1>2, MultipleOfMultiple
<1> QED
  BY <1>2, <1>3, ConstantsAssumption

\* Where each context is.
LEMMA Addresses ==
  /\ ContextAddress("lorawan") = 0 /\ Capacity("lorawan") = Slot
  /\ ContextAddress("key_modem") = Slot /\ Capacity("key_modem") = Slot
  /\ ContextAddress("modem") = 2 * Slot /\ Capacity("modem") = Slot
  /\ ContextAddress("secure_element") = 3 * Slot
  /\ Capacity("secure_element") = FuotaOffset - 3 * Slot
  /\ ContextAddress("fuota") = FuotaOffset /\ Capacity("fuota") = SafOffset - FuotaOffset
  /\ ContextAddress("store_and_forward") = SafOffset
  /\ Capacity("store_and_forward") = AreaSize - SafOffset
  BY Zenon DEF ContextAddress, Capacity

\* Every context is in the area, all but the store-and-forward context before it.
LEMMA ContextsFit ==
  ASSUME NEW ctx \in Contexts
  PROVE  /\ ContextAddress(ctx) \in Nat /\ Capacity(ctx) \in Int
         /\ ContextAddress(ctx) + Capacity(ctx) <= AreaSize
         /\ ctx # "store_and_forward" => ContextAddress(ctx) + Capacity(ctx) <= SafOffset
<1> USE Layout, Addresses
<1>1. CASE ctx = "lorawan"
  BY <1>1
<1>2. CASE ctx = "key_modem"
  BY <1>2
<1>3. CASE ctx = "modem"
  BY <1>3
<1>4. CASE ctx = "secure_element"
  BY <1>4
<1>5. CASE ctx = "fuota"
  BY <1>5
<1>6. CASE ctx = "store_and_forward"
  BY <1>6
<1> QED
  BY <1>1, <1>2, <1>3, <1>4, <1>5, <1>6 DEF Contexts

\* The request lies in the area.
LEMMA RequestInArea ==
  ASSUME TypeOK, Placed, request # None
  PROVE  /\ request.from \in Nat /\ request.size \in Nat \ {0} /\ request.value \in Values
         /\ request.from + request.size <= AreaSize
<1>1. request.from \in Nat /\ request.size \in Nat \ {0} /\ request.value \in Values
  BY DEF Placed, Requests
<1>2. request.from + request.size - 1 \in Span(request)
  BY <1>1 DEF Span
<1>3. request.from + request.size - 1 \in Bytes
  BY <1>2 DEF TypeOK
<1> QED
  BY <1>1, <1>3, Layout DEF Bytes

\* The next byte to write, and the end of what goes into its page.
Here == request.from + done
ChunkEnd == IF request.from + request.size <= PageStart + Page
            THEN request.from + request.size ELSE PageStart + Page

LEMMA PageInHand ==
  ASSUME TypeOK, Placed, Rewriting
  PROVE  /\ Here \in Nat /\ request.from <= Here /\ Here < request.from + request.size
         /\ PageStart \in Nat /\ PageStart <= Here /\ Here < PageStart + Page
         /\ PageStart + Page <= AreaSize
         /\ PageStart % Page = 0 /\ (PageStart + Page) % Page = 0
         /\ done # 0 => PageStart = Here
<1>1. request # None
  BY DEF TypeOK, Rewriting
<1>2. /\ request.from \in Nat /\ request.size \in Nat \ {0}
      /\ request.from + request.size <= AreaSize
  BY <1>1, RequestInArea
<1>3. Here \in Nat /\ request.from <= Here /\ Here < request.from + request.size
  BY <1>2 DEF Here, TypeOK, Placed
<1>4. PageStart = Start(Here, Page)
  BY DEF PageStart, Start, Here
<1>5. Page \in Nat \ {0} /\ AreaSize \in Nat /\ AreaSize % Page = 0
  BY Layout
<1>6. Here < AreaSize
  BY <1>2, <1>3, <1>5
<1>7. done # 0 => PageStart = Here
  <2> SUFFICES ASSUME done # 0 PROVE PageStart = Here
    OBVIOUS
  <2>1. Here % Page = 0
    BY DEF Placed, Here
  <2> QED
    BY <1>3, <1>4, <2>1 DEF Start
<1> QED
  BY <1>3, <1>4, <1>5, <1>6, <1>7, StartOfBlock, BlockInArea

\* The part of the data that goes into the page in hand.
LEMMA ChunkInterval ==
  ASSUME TypeOK, Placed, Rewriting
  PROVE  /\ ChunkEnd \in Nat /\ Here < ChunkEnd
         /\ ChunkEnd <= PageStart + Page /\ ChunkEnd <= request.from + request.size
         /\ Chunk = Here .. (ChunkEnd - 1)
         /\ Cardinality(Chunk) = ChunkEnd - Here
<1>1. request # None
  BY DEF TypeOK, Rewriting
<1>2. /\ request.from \in Nat /\ request.size \in Nat \ {0}
  BY <1>1, RequestInArea
<1>3. Page \in Nat \ {0}
  BY Layout
<1>4. /\ Here \in Nat /\ request.from <= Here /\ Here < request.from + request.size
      /\ PageStart \in Nat /\ PageStart <= Here /\ Here < PageStart + Page
  BY PageInHand
<1>5. /\ ChunkEnd \in Nat /\ Here < ChunkEnd
      /\ ChunkEnd <= PageStart + Page /\ ChunkEnd <= request.from + request.size
  BY <1>2, <1>3, <1>4 DEF ChunkEnd
<1>6. Chunk = Here .. (ChunkEnd - 1)
  <2>1. Chunk = {a \in Span(request) : a >= Here /\ a < PageStart + Page}
    BY DEF Chunk, Here
  <2> QED
    BY <1>2, <1>3, <1>4, <2>1 DEF Span, ChunkEnd
<1>7. Cardinality(Here .. (ChunkEnd - 1)) = ChunkEnd - Here
  <2>1. Here \in Int /\ ChunkEnd - 1 \in Int /\ ~(Here > ChunkEnd - 1)
    BY <1>4, <1>5
  <2>2. Cardinality(Here .. (ChunkEnd - 1)) = (ChunkEnd - 1) - Here + 1
    BY <2>1, FS_Interval, Zenon
  <2> QED
    BY <1>4, <1>5, <2>2
<1> QED
  BY <1>5, <1>6, <1>7

\* The padded write fits in the page buffer and in the area, and starts and
\* ends where the flash wants it to, if the flash takes it.
LEMMA PaddedWrite ==
  ASSUME TypeOK, Placed, Logging, SafFits
  PROVE  /\ Padding \in Nat /\ SafFrom \in Nat /\ SafFrom + Padding = request.from
         /\ SafSize \in Nat /\ SafSize <= Page /\ SafFrom + SafSize <= AreaSize
         /\ Padding + request.size <= SafSize
         /\ Accepted(request) <=> SafSize % WriteBlock = 0
<1>1. request # None
  BY DEF TypeOK, Logging
<1>2. /\ request.from \in Nat /\ request.size \in Nat \ {0}
      /\ request.from + request.size <= AreaSize
  BY <1>1, RequestInArea
<1>3. /\ WriteBlock \in Nat \ {0} /\ Page \in Nat \ {0}
      /\ AreaSize \in Nat /\ AreaSize % WriteBlock = 0
  BY Layout
<1>4. Padding \in 0..(WriteBlock - 1)
  BY <1>2, <1>3, DivMod DEF Padding
<1>5. request.size + WriteBlock <= Page + 1
  BY DEF SafFits, Placed
<1>6. SafFrom = Start(request.from, WriteBlock)
  BY DEF SafFrom, Padding, Start
<1>7. SafFrom \in Nat /\ SafFrom + WriteBlock <= AreaSize /\ SafFrom + Padding = request.from
  <2>1. request.from < AreaSize
    BY <1>2, <1>3
  <2>2. SafFrom \in Nat /\ SafFrom + WriteBlock <= AreaSize
    BY <1>2, <1>3, <1>6, <2>1, StartOfBlock, BlockInArea
  <2> QED
    BY <1>2, <1>4, <2>2 DEF SafFrom
<1>8. CASE request.size + Padding < WriteBlock
  <2>1. SafSize = WriteBlock
    BY <1>8 DEF SafSize
  <2>2. WriteBlock % WriteBlock = 0
    <3>1. WriteBlock = 1 * WriteBlock + 0
      BY <1>3
    <3> QED
      BY <1>3, <3>1, DivModUnique
  <2>3. Accepted(request)
    BY <1>8 DEF Accepted, Padding
  <2> QED
    BY <1>2, <1>3, <1>4, <1>5, <1>7, <1>8, <2>1, <2>2, <2>3
<1>9. CASE ~(request.size + Padding < WriteBlock)
  <2>1. SafSize = request.size + Padding
    BY <1>9 DEF SafSize
  <2>2. Accepted(request) <=> SafSize % WriteBlock = 0
    BY <1>9, <2>1 DEF Accepted, Padding, Placed
  <2> QED
    BY <1>2, <1>3, <1>4, <1>5, <1>7, <1>9, <2>1, <2>2
<1> QED
  BY <1>8, <1>9

-----------------------------------------------------------------------------
(* Every step keeps the inductive invariant.                               *)

\* A new store.
LEMMA StoreStep ==
  ASSUME IInv, NEW ctx \in Contexts, NEW offset \in Bytes, NEW v \in Values,
         NEW size \in IF ctx = "store_and_forward" THEN SafSizes ELSE Sizes,
         Store(ctx, offset, size, v)
  PROVE  IInv'
<1>1. /\ ContextAddress(ctx) \in Nat /\ Capacity(ctx) \in Int
      /\ ContextAddress(ctx) + Capacity(ctx) <= AreaSize
      /\ ctx # "store_and_forward" => ContextAddress(ctx) + Capacity(ctx) <= SafOffset
      /\ ctx = "store_and_forward" => ContextAddress(ctx) = SafOffset
  BY ContextsFit, Addresses
<1>2. /\ size \in Nat \ {0} /\ offset \in Nat /\ SafOffset \in Nat /\ AreaSize \in Nat
      /\ offset + size <= Capacity(ctx)
  BY Layout DEF Bytes, Store
<1> DEFINE from == ContextAddress(ctx) + offset
<1>3. /\ from \in Nat /\ from + size <= AreaSize
      /\ from < SafOffset <=> ctx # "store_and_forward"
  BY <1>1, <1>2
<1> HIDE DEF from
<1>4. request' = [from |-> from, size |-> size, value |-> v]
  BY DEF Store, from
<1>5. request' \in Requests /\ request'.from = from /\ request'.size = size /\ request'.value = v
  BY <1>2, <1>3, <1>4 DEF Requests
<1>6. request' # None
  BY <1>2, <1>3, <1>4, ConstantsAssumption
<1>7. Span(request') \subseteq Bytes
  BY <1>2, <1>3, <1>5 DEF Span, Bytes
<1>8. /\ done' = 0 /\ last' = None /\ flash' = flash /\ pageBuffer' = pageBuffer
      /\ pc' = IF ctx # "store_and_forward" THEN "read" ELSE "pad"
      /\ stores < MaxStores /\ stores' = stores + 1
  BY <1>3, <1>5 DEF Store
<1>9. TypeOK'
  <2>1. stores' \in 0..MaxStores
    BY <1>8, Layout DEF IInv, TypeOK
  <2>2. done' \in Nat /\ pc' \in {"read", "pad"}
    BY <1>8
  <2>3. request'.from \in Nat /\ request'.size \in Nat /\ request'.value \in Values
    BY <1>2, <1>3, <1>5
  <2> QED
    BY <1>6, <1>7, <1>8, <2>1, <2>2, <2>3 DEF IInv, TypeOK
<1>10. Placed'
  <2>1. Logging' => size \in SafSizes /\ from >= SafOffset
    BY <1>2, <1>3, <1>8 DEF Logging
  <2>2. Rewriting' => done' < request'.size /\ done' = 0 /\ from < SafOffset
    BY <1>2, <1>3, <1>5, <1>8 DEF Rewriting
  <2> QED
    BY <1>5, <1>8, <2>1, <2>2 DEF Placed
<1>11. Filled' /\ Padded' /\ TakenIsRestored'
  BY <1>8 DEF Filled, Padded, TakenIsRestored
<1>12. Written'
  BY <1>2, <1>3, <1>5, <1>8 DEF Written, Span
<1> QED
  BY <1>9, <1>10, <1>11, <1>12 DEF IInv

\* A step that leaves the request alone leaves the page and the data alone.
LEMMA SameRequest ==
  ASSUME request' = request, done' = done
  PROVE  /\ PageStart' = PageStart /\ Chunk' = Chunk
         /\ Padding' = Padding /\ SafFrom' = SafFrom /\ SafSize' = SafSize
<1>1. PageStart' = PageStart
  BY DEF PageStart
<1>2. Padding' = Padding
  BY DEF Padding
<1> QED
  BY <1>1, <1>2 DEF Chunk, SafFrom, SafSize

LEMMA ReadPageStep == ASSUME IInv, ReadPage PROVE IInv'
<1>1. /\ pc = "read" /\ pc' = "erase" /\ request' = request /\ done' = done
      /\ flash' = flash /\ last' = last /\ stores' = stores
      /\ pageBuffer' = [i \in InPage |-> IF PageStart + i \in Chunk THEN request.value
                                         ELSE flash[PageStart + i]]
  BY DEF ReadPage
<1>2. PageStart' = PageStart /\ Chunk' = Chunk
  BY <1>1, SameRequest
<1>3. request # None /\ Rewriting
  BY <1>1 DEF IInv, TypeOK, Rewriting
<1>4. \A i \in InPage : PageStart + i \in Bytes
  BY <1>3, PageInHand, Layout DEF IInv, InPage, Bytes
<1>5. TypeOK'
  <2>1. request.value \in Values
    BY <1>3, RequestInArea DEF IInv
  <2>2. pageBuffer' \in [InPage -> Values \cup {Erased}]
    BY <1>1, <1>4, <2>1 DEF IInv, TypeOK
  <2> QED
    BY <1>1, <2>2 DEF IInv, TypeOK
<1>6. Placed' /\ Written' /\ TakenIsRestored' /\ Padded'
  BY <1>1, <1>3 DEF IInv, Placed, Written, TakenIsRestored, Padded, Rewriting, Logging
<1>7. Filled'
  BY <1>1, <1>2 DEF Filled
<1> QED
  BY <1>5, <1>6, <1>7 DEF IInv

\* What earlier pages hold is not in the page in hand.
LEMMA EarlierPages ==
  ASSUME IInv, Rewriting, NEW a \in Span(request), a < Here
  PROVE  a \in Bytes /\ a < PageStart /\ flash[a] = request.value
<1>1. request # None /\ TypeOK /\ Placed
  BY DEF IInv, TypeOK, Rewriting
<1>2. a \in Bytes /\ a \in Nat /\ a >= request.from
  BY <1>1, RequestInArea DEF TypeOK, Span, Bytes
<1>3. done # 0
  BY <1>1, <1>2, RequestInArea DEF Here
<1>4. a < PageStart
  BY <1>1, <1>3, PageInHand
<1> QED
  BY <1>2, <1>4 DEF IInv, Written, Here

LEMMA ErasePageStep == ASSUME IInv, ErasePage PROVE IInv'
<1>1. /\ pc = "erase" /\ pc' = "write" /\ request' = request /\ done' = done
      /\ pageBuffer' = pageBuffer /\ last' = last /\ stores' = stores
      /\ flash' = [a \in Bytes |-> IF a - PageStart \in InPage THEN Erased ELSE flash[a]]
  BY DEF ErasePage
<1>2. PageStart' = PageStart /\ Chunk' = Chunk
  BY <1>1, SameRequest
<1>3. request # None /\ Rewriting /\ last = None
  BY <1>1 DEF IInv, TypeOK, Rewriting, Placed
<1>4. /\ PageStart \in Nat /\ \A i \in InPage : PageStart + i \in Bytes
  BY <1>3, PageInHand, Layout DEF IInv, InPage, Bytes
<1>5. TypeOK'
  <2>1. flash' \in [Bytes -> Values \cup {Erased}]
    BY <1>1 DEF IInv, TypeOK
  <2> QED
    BY <1>1, <2>1 DEF IInv, TypeOK
<1>6. Placed' /\ TakenIsRestored' /\ Padded'
  BY <1>1, <1>3 DEF IInv, Placed, TakenIsRestored, Padded, Rewriting, Logging
<1>7. Filled'
  <2>1. \A i \in InPage : flash'[PageStart + i] = Erased
    <3> SUFFICES ASSUME NEW i \in InPage PROVE flash'[PageStart + i] = Erased
      OBVIOUS
    <3>1. PageStart + i \in Bytes /\ (PageStart + i) - PageStart = i
      BY <1>4 DEF InPage
    <3> QED
      BY <1>1, <3>1
  <2>2. \A i \in InPage : PageStart + i \in Chunk => pageBuffer[i] = request.value
    BY <1>1 DEF IInv, Filled
  <2> QED
    BY <1>1, <1>2, <2>1, <2>2 DEF Filled
<1>8. Written'
  <2> SUFFICES ASSUME NEW a \in Span(request), a < Here PROVE flash'[a] = request.value
    BY <1>1 DEF Written, Here
  <2>1. a \in Bytes /\ a < PageStart /\ flash[a] = request.value
    BY <1>3, EarlierPages
  <2>2. a - PageStart \notin InPage
    BY <1>4, <2>1 DEF InPage, Bytes
  <2> QED
    BY <1>1, <2>1, <2>2
<1> QED
  BY <1>5, <1>6, <1>7, <1>8 DEF IInv

\* A page that is written back holds its part of the data.
LEMMA PageWritten ==
  ASSUME IInv, WritePage, NEW a \in Span(request), a < ChunkEnd
  PROVE  flash'[a] = request.value
<1>1. /\ pc = "write"
      /\ flash' = [b \in Bytes |-> IF b - PageStart \in InPage THEN pageBuffer[b - PageStart]
                                   ELSE flash[b]]
  BY DEF WritePage
<1>2. Rewriting /\ request # None /\ TypeOK /\ Placed
  BY <1>1 DEF IInv, TypeOK, Rewriting
<1>3. /\ PageStart \in Nat /\ PageStart <= Here /\ Here \in Nat /\ ChunkEnd \in Nat
      /\ ChunkEnd <= PageStart + Page /\ Chunk = Here .. (ChunkEnd - 1) /\ Page \in Nat
  BY <1>2, PageInHand, ChunkInterval, Layout
<1>4. a \in Bytes /\ a \in Nat
  BY <1>2 DEF TypeOK, Bytes
<1>5. CASE a < Here
  <2>1. a < PageStart /\ flash[a] = request.value
    BY <1>2, <1>5, EarlierPages
  <2>2. a - PageStart \notin InPage
    BY <1>3, <1>4, <2>1 DEF InPage
  <2> QED
    BY <1>1, <1>4, <2>1, <2>2
<1>6. CASE ~(a < Here)
  <2>1. a \in Chunk /\ a - PageStart \in InPage /\ PageStart + (a - PageStart) = a
    BY <1>3, <1>4, <1>6 DEF InPage
  <2>2. pageBuffer[a - PageStart] = request.value
    BY <1>1, <2>1 DEF IInv, Filled
  <2> QED
    BY <1>1, <1>4, <2>1, <2>2
<1> QED
  BY <1>5, <1>6

LEMMA WritePageStep == ASSUME IInv, WritePage PROVE IInv'
<1>1. /\ pc = "write" /\ pageBuffer' = pageBuffer /\ stores' = stores
      /\ flash' = [a \in Bytes |-> IF a - PageStart \in InPage THEN pageBuffer[a - PageStart]
                                   ELSE flash[a]]
      /\ Finish(done + Cardinality(Chunk))
  BY DEF WritePage
<1>2. Rewriting /\ request # None /\ TypeOK /\ Placed /\ last = None
  BY <1>1 DEF IInv, TypeOK, Rewriting, Placed
<1>3. /\ request.from \in Nat /\ request.size \in Nat \ {0} /\ request \in Requests
      /\ request.from + request.size <= AreaSize
  BY <1>2, RequestInArea DEF Placed
<1>4. /\ PageStart \in Nat /\ PageStart <= Here /\ Here \in Nat /\ ChunkEnd \in Nat
      /\ Here < ChunkEnd /\ ChunkEnd <= request.from + request.size
      /\ Cardinality(Chunk) = ChunkEnd - Here /\ Page \in Nat
      /\ (PageStart + Page) % Page = 0
  BY <1>2, PageInHand, ChunkInterval, Layout
<1>5. flash' \in [Bytes -> Values \cup {Erased}]
  BY <1>1, <1>2 DEF TypeOK
<1> DEFINE n == done + Cardinality(Chunk)
<1>6. n \in Nat /\ request.from + n = ChunkEnd
  BY <1>2, <1>3, <1>4 DEF Here, TypeOK
<1> HIDE DEF n
<1>7. CASE n < request.size
  <2>1. pc' = "read" /\ done' = n /\ request' = request /\ last' = last
    BY <1>1, <1>7 DEF Finish, n
  <2>2. ChunkEnd = PageStart + Page
    BY <1>3, <1>4, <1>6, <1>7 DEF ChunkEnd
  <2>3. (request.from + n) % Page = 0
    BY <1>4, <1>6, <2>2
  <2>4. TypeOK'
    BY <1>1, <1>2, <1>5, <1>6, <2>1 DEF TypeOK
  <2>5. Placed'
    BY <1>2, <1>7, <2>1, <2>3 DEF Placed, Rewriting, Logging
  <2>6. Filled' /\ Padded' /\ TakenIsRestored'
    BY <1>2, <2>1 DEF Filled, Padded, TakenIsRestored
  <2>7. Written'
    BY <1>6, <2>1, PageWritten DEF Written
  <2> QED
    BY <2>4, <2>5, <2>6, <2>7 DEF IInv
<1>8. CASE ~(n < request.size)
  <2>1. pc' = "idle" /\ done' = 0 /\ request' = None /\ last' = request
    BY <1>1, <1>8 DEF Finish, n
  <2>2. ChunkEnd = request.from + request.size
    BY <1>3, <1>4, <1>6, <1>8
  <2>3. \A a \in Span(request) : flash'[a] = request.value
    BY <1>3, <2>2, PageWritten DEF Span
  <2>4. TypeOK'
    BY <1>1, <1>2, <1>5, <2>1 DEF TypeOK
  <2>5. Placed' /\ Filled' /\ Padded' /\ Written'
    <3>1. request.from < SafOffset
      BY <1>2 DEF Placed
    <3> QED
      BY <1>3, <2>1, <3>1, Layout DEF Placed, Rewriting, Logging, Filled, Padded, Written
  <2>6. TakenIsRestored'
    BY <1>3, <2>1, <2>3 DEF TakenIsRestored
  <2> QED
    BY <2>4, <2>5, <2>6 DEF IInv
<1> QED
  BY <1>7, <1>8

LEMMA PadBufferStep == ASSUME IInv, SafFits, PadBuffer PROVE IInv'
<1>1. /\ pc = "pad" /\ pc' = "saf_write" /\ request' = request /\ done' = done
      /\ flash' = flash /\ last' = last /\ stores' = stores
      /\ pageBuffer' = [i \in InPage |->
           IF i \in Padding .. (Padding + request.size - 1) THEN request.value
           ELSE IF i < SafSize THEN flash[SafFrom + i] ELSE pageBuffer[i]]
  BY DEF PadBuffer
<1>2. /\ PageStart' = PageStart /\ Chunk' = Chunk
      /\ Padding' = Padding /\ SafFrom' = SafFrom /\ SafSize' = SafSize
  BY <1>1, SameRequest
<1>3. Logging /\ request # None /\ TypeOK /\ Placed
  BY <1>1 DEF IInv, TypeOK, Logging
<1>4. /\ request.from \in Nat /\ request.size \in Nat \ {0} /\ request.value \in Values
  BY <1>3, RequestInArea
<1>5. /\ Padding \in Nat /\ SafFrom \in Nat /\ SafFrom + Padding = request.from
      /\ SafSize \in Nat /\ SafFrom + SafSize <= AreaSize /\ AreaSize \in Nat /\ Page \in Nat
  BY <1>3, PaddedWrite, Layout
<1>6. TypeOK'
  <2>1. \A i \in InPage : i < SafSize => SafFrom + i \in Bytes
    BY <1>5 DEF InPage, Bytes
  <2>2. pageBuffer' \in [InPage -> Values \cup {Erased}]
    BY <1>1, <1>3, <1>4, <2>1 DEF TypeOK
  <2> QED
    BY <1>1, <1>3, <2>2 DEF TypeOK
<1>7. Placed' /\ Filled' /\ Written' /\ TakenIsRestored'
  BY <1>1, <1>3 DEF IInv, Placed, Filled, Written, TakenIsRestored, Rewriting, Logging
<1>8. Padded'
  <2>1. \A i \in InPage : i \in Padding .. (Padding + request.size - 1)
                            <=> SafFrom + i \in Span(request)
    BY <1>4, <1>5 DEF InPage, Span
  <2> QED
    BY <1>1, <1>2, <2>1 DEF Padded
<1> QED
  BY <1>6, <1>7, <1>8 DEF IInv

\* A padded write that the flash takes writes the data, and nothing else changes.
LEMMA SafWritten ==
  ASSUME IInv, SafFits, SafWrite, Accepted(request), NEW a \in Bytes
  PROVE  flash'[a] = IF a \in Span(request) THEN request.value ELSE flash[a]
<1>1. /\ pc = "saf_write"
      /\ flash' = IF SafSize % WriteBlock # 0 THEN flash
                  ELSE [b \in Bytes |-> IF b - SafFrom \in 0..(SafSize - 1)
                                        THEN pageBuffer[b - SafFrom] ELSE flash[b]]
  BY DEF SafWrite
<1>2. Logging /\ request # None /\ TypeOK /\ Placed
  BY <1>1 DEF IInv, TypeOK, Logging
<1>3. /\ request.from \in Nat /\ request.size \in Nat \ {0}
  BY <1>2, RequestInArea
<1>4. /\ Padding \in Nat /\ SafFrom \in Nat /\ SafFrom + Padding = request.from
      /\ SafSize \in Nat /\ SafSize <= Page /\ Padding + request.size <= SafSize
      /\ SafSize % WriteBlock = 0 /\ Page \in Nat
  BY <1>2, PaddedWrite, Layout
<1>5. a \in Nat
  BY DEF Bytes
<1>6. flash'[a] = IF a - SafFrom \in 0..(SafSize - 1) THEN pageBuffer[a - SafFrom]
                                                      ELSE flash[a]
  BY <1>1, <1>4
<1>7. CASE a - SafFrom \in 0..(SafSize - 1)
  <2>1. /\ a - SafFrom \in InPage /\ a - SafFrom < SafSize /\ SafFrom + (a - SafFrom) = a
    BY <1>4, <1>5, <1>7 DEF InPage
  <2>2. pageBuffer[a - SafFrom] = IF a \in Span(request) THEN request.value ELSE flash[a]
    BY <1>1, <2>1 DEF IInv, Padded
  <2> QED
    BY <1>6, <1>7, <2>2
<1>8. CASE a - SafFrom \notin 0..(SafSize - 1)
  <2>1. a \notin Span(request)
    BY <1>3, <1>4, <1>5, <1>8 DEF Span
  <2> QED
    BY <1>6, <1>8, <2>1
<1> QED
  BY <1>7, <1>8

LEMMA SafWriteStep == ASSUME IInv, SafFits, SafWrite PROVE IInv'
<1>1. /\ pc = "saf_write" /\ pageBuffer' = pageBuffer /\ stores' = stores
      /\ flash' = IF SafSize % WriteBlock # 0 THEN flash
                  ELSE [b \in Bytes |-> IF b - SafFrom \in 0..(SafSize - 1)
                                        THEN pageBuffer[b - SafFrom] ELSE flash[b]]
      /\ Finish(request.size)
  BY DEF SafWrite
<1>2. Logging /\ request # None /\ TypeOK /\ Placed
  BY <1>1 DEF IInv, TypeOK, Logging
<1>3. /\ request.size \in Nat \ {0} /\ request \in Requests /\ Span(request) \subseteq Bytes
  BY <1>2, RequestInArea DEF Placed, TypeOK
<1>4. SafSize \in Nat /\ SafSize <= Page /\ Page \in Nat
  BY <1>2, PaddedWrite, Layout
<1>5. pc' = "idle" /\ done' = 0 /\ request' = None /\ last' = request
  BY <1>1, <1>3 DEF Finish
<1>6. TypeOK'
  <2>1. \A n \in 0..(SafSize - 1) : n \in InPage
    BY <1>4 DEF InPage
  <2>2. flash' \in [Bytes -> Values \cup {Erased}]
    BY <1>1, <1>2, <2>1 DEF TypeOK
  <2> QED
    BY <1>1, <1>2, <1>5, <2>2 DEF TypeOK
<1>7. Placed' /\ Filled' /\ Padded' /\ Written'
  BY <1>2, <1>5 DEF Placed, Rewriting, Logging, Filled, Padded, Written
<1>8. TakenIsRestored'
  <2>1. Accepted(request) => \A a \in Span(request) : flash'[a] = request.value
    BY <1>3, SafWritten
  <2> QED
    BY <1>3, <1>5, <2>1 DEF TakenIsRestored
<1> QED
  BY <1>6, <1>7, <1>8 DEF IInv

LEMMA PagesEraseStep ==
  ASSUME IInv, NEW page \in Bytes, NEW count \in 1..2, PagesErase(page, count)
  PROVE  IInv'
<1>1. /\ pc = "idle" /\ pc' = pc /\ request' = request /\ done' = done /\ stores' = stores
      /\ pageBuffer' = pageBuffer /\ last' = None
      /\ flash' = [a \in Bytes |-> IF a \in page .. (page + count * Page - 1) THEN Erased
                                   ELSE flash[a]]
  BY DEF PagesErase
<1>2. TypeOK'
  <2>1. flash' \in [Bytes -> Values \cup {Erased}]
    BY <1>1 DEF IInv, TypeOK
  <2> QED
    BY <1>1, <2>1 DEF IInv, TypeOK
<1> QED
  BY <1>1, <1>2 DEF IInv, Placed, Filled, Padded, Written, TakenIsRestored, Rewriting, Logging

\* What a reset leaves of the flash: of the page in hand, some of what was
\* being written.
LEMMA ResetLeaves ==
  ASSUME IInv, Reset
  PROVE  /\ flash' \in [Bytes -> Values \cup {Erased}]
         /\ \A a \in Bytes : flash'[a] # flash[a] =>
              \/ /\ pc = "write" /\ a - PageStart \in InPage
                 /\ flash'[a] = pageBuffer[a - PageStart]
              \/ /\ pc = "saf_write" /\ a - SafFrom \in InPage /\ a - SafFrom < SafSize
                 /\ flash'[a] = pageBuffer[a - SafFrom]
<1>1. CASE pc \notin {"write", "saf_write"}
  BY <1>1 DEF Reset, IInv, TypeOK
<1>2. CASE pc = "write"
  <2>1. PICK n : flash' = [a \in Bytes |-> IF a - PageStart \in InPage /\ a - PageStart < n
                                           THEN pageBuffer[a - PageStart] ELSE flash[a]]
    BY <1>2 DEF Reset
  <2> QED
    BY <1>2, <2>1 DEF IInv, TypeOK
<1>3. CASE pc = "saf_write"
  <2>1. PICK n : flash' = [a \in Bytes |-> IF a - SafFrom \in InPage /\ a - SafFrom < n
                                              /\ a - SafFrom < SafSize
                                           THEN pageBuffer[a - SafFrom] ELSE flash[a]]
    BY <1>3 DEF Reset
  <2> QED
    BY <1>3, <2>1 DEF IInv, TypeOK
<1> QED
  BY <1>1, <1>2, <1>3

LEMMA ResetStep == ASSUME IInv, Reset PROVE IInv'
<1>1. /\ pageBuffer' = [i \in InPage |-> Erased]
      /\ request' = None /\ done' = 0 /\ pc' = "idle" /\ last' = None /\ stores' = stores
  BY DEF Reset
<1>2. TypeOK'
  BY <1>1, ResetLeaves DEF IInv, TypeOK
<1> QED
  BY <1>1, <1>2 DEF IInv, Placed, Filled, Padded, Written, TakenIsRestored, Rewriting, Logging

\* The inductive invariant holds initially.
LEMMA InitIInv == Init => IInv
<1> SUFFICES ASSUME Init PROVE IInv
  OBVIOUS
<1>1. TypeOK
  BY Layout DEF Init, TypeOK
<1> QED
  BY <1>1 DEF Init, IInv, Placed, Filled, Padded, Written, TakenIsRestored, Rewriting, Logging

\* Every step keeps the inductive invariant.
LEMMA NextIInv == ASSUME SafFits, IInv, [Next]_vars PROVE IInv'
<1>1. CASE \E ctx \in Contexts, offset \in Bytes, v \in Values :
             \E size \in IF ctx = "store_and_forward" THEN SafSizes ELSE Sizes :
               Store(ctx, offset, size, v)
  BY <1>1, StoreStep
<1>2. CASE ReadPage
  BY <1>2, ReadPageStep
<1>3. CASE ErasePage
  BY <1>3, ErasePageStep
<1>4. CASE WritePage
  BY <1>4, WritePageStep
<1>5. CASE PadBuffer
  BY <1>5, PadBufferStep
<1>6. CASE SafWrite
  BY <1>6, SafWriteStep
<1>7. CASE \E page \in Bytes, count \in 1..2 : PagesErase(page, count)
  BY <1>7, PagesEraseStep
<1>8. CASE Reset
  BY <1>8, ResetStep
<1>9. CASE UNCHANGED vars
  <2>1. /\ flash' = flash /\ pageBuffer' = pageBuffer /\ request' = request /\ done' = done
        /\ pc' = pc /\ stores' = stores /\ last' = last
    BY <1>9 DEF vars
  <2>2. /\ PageStart' = PageStart /\ Chunk' = Chunk
        /\ SafFrom' = SafFrom /\ SafSize' = SafSize
    BY <2>1, SameRequest
  <2>3. TypeOK' /\ Placed' /\ Written' /\ TakenIsRestored'
    BY <2>1 DEF IInv, TypeOK, Placed, Rewriting, Logging, Written, TakenIsRestored
  <2>4. Filled' /\ Padded'
    BY <2>1, <2>2 DEF IInv, Filled, Padded
  <2> QED
    BY <2>3, <2>4 DEF IInv
<1> QED
  BY <1>1, <1>2, <1>3, <1>4, <1>5, <1>6, <1>7, <1>8, <1>9 DEF Next

-----------------------------------------------------------------------------
(* The theorems about the invariants.                                      *)

\* The inductive invariant is an invariant, for stores that fit the buffer.
THEOREM Inductive == ASSUME SafFits PROVE Spec => []IInv
<1>1. IInv /\ [Next]_vars => IInv'
  BY NextIInv
<1> QED
  BY InitIInv, <1>1, PTL DEF Spec

\* TypeOK is an invariant: no flash operation leaves the flash area, and no
\* copy leaves the page buffer (smtc_modem_hal_storage.c:153-226).
THEOREM TypeCorrect == ASSUME SafFits PROVE Spec => []TypeOK
<1>1. IInv => TypeOK
  BY DEF IInv
<1> QED
  BY Inductive, <1>1, PTL

\* A restore reads what a completed store wrote, over page boundaries, with or
\* without padding, for every store but those whose padded size the flash
\* refuses (smtc_modem_hal_storage.c:128-135, 153-226).
THEOREM RestoredIfTaken == ASSUME SafFits PROVE Spec => []TakenIsRestored
<1>1. IInv => TakenIsRestored
  BY DEF IInv
<1> QED
  BY Inductive, <1>1, PTL

\* A restore reads what any completed store wrote, if padding always makes a
\* whole number of write blocks
\* (StoredIsRestored; smtc_modem_hal_storage.c:128-135, 190-226).
THEOREM Restored == ASSUME SafFits, SafAligned PROVE Spec => []StoredIsRestored
<1>1. IInv => StoredIsRestored
  <2> SUFFICES ASSUME IInv, last # None PROVE Accepted(last)
    BY DEF IInv, TakenIsRestored, StoredIsRestored
  <2> SUFFICES ASSUME last.from >= SafOffset,
                      last.size + (last.from % WriteBlock) >= WriteBlock
               PROVE  (last.size + (last.from % WriteBlock)) % WriteBlock = 0
    <3>1. last.from \in Nat /\ last.size \in Nat
      BY DEF IInv, TakenIsRestored, Requests
    <3>2. WriteBlock \in Nat \ {0}
      BY Layout
    <3>3. last.from % WriteBlock \in Nat
      BY <3>1, <3>2, DivMod
    <3> QED
      BY <3>1, <3>2, <3>3 DEF Accepted
  <2> DEFINE p == last.from % WriteBlock  s == last.size
  <2>1. WriteBlock \in Nat \ {0} /\ s \in SafSizes /\ s \in Nat /\ p \in 0..(WriteBlock - 1)
    <3>1. WriteBlock \in Nat \ {0} /\ s \in SafSizes /\ s \in Nat /\ last.from \in Nat
      BY Layout DEF IInv, Placed, TakenIsRestored, Requests
    <3> QED
      BY <3>1, DivMod
  <2> HIDE DEF p, s
  <2>2. s + p = p + s
    BY <2>1
  <2>3. CASE p + s <= WriteBlock
    <3>1. s + p = WriteBlock /\ WriteBlock = 1 * WriteBlock + 0
      BY <2>1, <2>3 DEF p, s
    <3>2. WriteBlock % WriteBlock = 0
      BY <2>1, <3>1, DivModUnique
    <3> QED
      BY <3>1, <3>2 DEF p, s
  <2>4. CASE (p + s) % WriteBlock = 0
    BY <2>2, <2>4 DEF p, s
  <2> QED
    BY <2>1, <2>3, <2>4 DEF SafAligned
<1> QED
  BY Inductive, <1>1, PTL

-----------------------------------------------------------------------------
(* ContextStorage implements ContextStore.                                 *)

\* What a byte of the abstract store holds.
LEMMA ContentIs ==
  ASSUME TypeOK
  PROVE  /\ pc # "write" => Content = flash
         /\ \A a \in Bytes :
              Content[a] = IF pc = "write" /\ a - PageStart \in InPage
                           THEN pageBuffer[a - PageStart] ELSE flash[a]
  BY DEF TypeOK, Content

\* The same after a step.
LEMMA ContentAfter ==
  ASSUME TypeOK'
  PROVE  /\ pc' # "write" => Content' = flash'
         /\ \A a \in Bytes :
              Content'[a] = IF pc' = "write" /\ a - PageStart' \in InPage
                            THEN pageBuffer'[a - PageStart'] ELSE flash'[a]
  BY DEF TypeOK, Content

\* The abstract store is in a state of its own.
LEMMA AskedIs ==
  ASSUME TypeOK, Placed
  PROVE  /\ request = None <=> Asked = None
         /\ request # None => /\ Asked # None
                              /\ Asked.bytes = Span(request) /\ Asked.bytes \subseteq Bytes
                              /\ Asked.value = request.value /\ request.value \in Values
<1>1. CASE request = None
  BY <1>1 DEF Asked
<1>2. CASE request # None
  <2>1. Asked = [bytes |-> Span(request), value |-> request.value]
    BY <1>2 DEF Asked
  <2>2. Span(request) \subseteq Bytes /\ request.value \in Values
    BY <1>2 DEF TypeOK
  <2>3. Asked \in [bytes : SUBSET (0..(AreaSize - 1)), value : Values]
    BY <2>1, <2>2 DEF Bytes
  <2>4. Asked # None
    BY <2>3, ConstantsAssumption
  <2> QED
    BY <1>2, <2>1, <2>2, <2>4
<1> QED
  BY <1>1, <1>2

LEMMA AskedAfter ==
  ASSUME TypeOK', Placed', request' # None
  PROVE  Asked' # None /\ Asked'.bytes \subseteq Bytes /\ Asked'.value \in Values
<1>1. Asked' = [bytes |-> Span(request'), value |-> request'.value]
  BY DEF Asked, Span
<1>2. Span(request') \subseteq Bytes /\ request'.value \in Values
  BY DEF TypeOK
<1>3. Asked' \in [bytes : SUBSET (0..(AreaSize - 1)), value : Values]
  BY <1>1, <1>2 DEF Bytes
<1>4. Asked' # None
  BY <1>3, ConstantsAssumption
<1> QED
  BY <1>1, <1>2, <1>4

\* The initial states are initial states of the abstract store.
LEMMA InitRefines == Init => Abstract!Init
<1> SUFFICES ASSUME Init PROVE Abstract!Init
  OBVIOUS
<1>1. TypeOK
  BY InitIInv DEF IInv
<1>2. Content = flash /\ flash \in [Bytes -> Values \cup {Erased}]
  BY <1>1, ContentIs DEF Init, TypeOK
<1>3. Asked = None
  BY DEF Init, Asked
<1> QED
  BY <1>2, <1>3 DEF Abstract!Init

\* A new store.
LEMMA StoreRefines ==
  ASSUME IInv, NEW ctx \in Contexts, NEW offset \in Bytes, NEW v \in Values,
         NEW size \in IF ctx = "store_and_forward" THEN SafSizes ELSE Sizes,
         Store(ctx, offset, size, v)
  PROVE  Abstract!Ask
<1>1. IInv'
  BY StoreStep
<1>2. pc = "idle" /\ pc' # "write" /\ flash' = flash /\ request = None /\ request' # None
  <2>1. pc = "idle" /\ pc' \in {"read", "pad"} /\ flash' = flash
    BY DEF Store
  <2> QED
    BY <1>1, <2>1 DEF IInv, TypeOK
<1>3. Content' = Content
  <2>1. Content = flash
    BY <1>2, ContentIs DEF IInv
  <2>2. Content' = flash'
    BY <1>1, <1>2, ContentAfter DEF IInv
  <2> QED
    BY <1>2, <2>1, <2>2
<1>4. Asked = None
  BY <1>2, AskedIs DEF IInv
<1>5. Asked' # None /\ Asked'.bytes \subseteq Bytes /\ Asked'.value \in Values
  BY <1>1, <1>2, AskedAfter DEF IInv
<1> QED
  BY <1>3, <1>4, <1>5 DEF Abstract!Ask

\* Reading a page and filling the page buffer are not seen.
LEMMA BufferRefines ==
  ASSUME IInv, SafFits, ReadPage \/ PadBuffer PROVE UNCHANGED Abstract!storeVars
<1>1. IInv'
  BY ReadPageStep, PadBufferStep
<1>2. pc # "write" /\ pc' # "write" /\ flash' = flash /\ request' = request
  BY DEF ReadPage, PadBuffer
<1>3. Content' = Content
  <2>1. Content = flash
    BY <1>2, ContentIs DEF IInv
  <2>2. Content' = flash'
    BY <1>1, <1>2, ContentAfter DEF IInv
  <2> QED
    BY <1>2, <2>1, <2>2
<1>4. Asked' = Asked
  BY <1>2 DEF Asked, Span
<1> QED
  BY <1>3, <1>4 DEF Abstract!storeVars

\* Once its page is erased, the data counts as stored.
LEMMA ErasePageRefines == ASSUME IInv, ErasePage PROVE Abstract!Apply
<1>1. IInv'
  BY ErasePageStep
<1>2. /\ pc = "erase" /\ pc' = "write" /\ request' = request /\ done' = done
      /\ pageBuffer' = pageBuffer
      /\ flash' = [a \in Bytes |-> IF a - PageStart \in InPage THEN Erased ELSE flash[a]]
  BY DEF ErasePage
<1>3. PageStart' = PageStart
  BY <1>2, SameRequest
<1>4. request # None /\ Rewriting /\ TypeOK /\ Placed
  BY <1>2 DEF IInv, TypeOK, Rewriting
<1>5. PageStart \in Nat /\ Chunk \subseteq Span(request)
  BY <1>4, PageInHand DEF Chunk
<1>6. ASSUME NEW a \in Bytes, Content'[a] # Content[a]
      PROVE  a \in Span(request) /\ Content'[a] = request.value
  <2>1. Content[a] = flash[a]
    BY <1>2, <1>4, ContentIs
  <2>2. Content'[a] = IF a - PageStart \in InPage THEN pageBuffer[a - PageStart] ELSE flash[a]
    <3>1. Content'[a] = IF pc' = "write" /\ a - PageStart' \in InPage
                        THEN pageBuffer'[a - PageStart'] ELSE flash'[a]
      BY <1>1, ContentAfter DEF IInv
    <3> QED
      BY <1>2, <1>3, <3>1
  <2>3. a - PageStart \in InPage /\ PageStart + (a - PageStart) = a
    BY <1>5, <1>6, <2>1, <2>2 DEF Bytes
  <2>4. pageBuffer[a - PageStart] = IF a \in Chunk THEN request.value ELSE flash[a]
    BY <1>2, <2>3 DEF IInv, Filled
  <2> QED
    BY <1>5, <1>6, <2>1, <2>2, <2>3, <2>4
<1>7. Asked' = Asked
  BY <1>2 DEF Asked, Span
<1> QED
  BY <1>4, <1>6, <1>7, AskedIs DEF Abstract!Apply

\* The end of a store that is written.
LEMMA DoneRefines ==
  ASSUME IInv, IInv', request # None, request' = None,
         \A a \in Span(request) : Content'[a] = request.value,
         \A a \in Bytes \ Span(request) : Content'[a] = Content[a]
  PROVE  Abstract!Done
<1>1. /\ Asked # None /\ Asked' = None
      /\ Asked.bytes = Span(request) /\ Asked.value = request.value
  BY AskedIs DEF IInv, Asked
<1> QED
  BY <1>1 DEF Abstract!Done

\* Writing a page back shows nothing new; after the last one the store is done.
LEMMA WritePageRefines ==
  ASSUME IInv, WritePage PROVE Abstract!Done \/ UNCHANGED Abstract!storeVars
<1>1. IInv'
  BY WritePageStep
<1>2. /\ pc = "write"
      /\ flash' = [a \in Bytes |-> IF a - PageStart \in InPage THEN pageBuffer[a - PageStart]
                                   ELSE flash[a]]
      /\ Finish(done + Cardinality(Chunk))
  BY DEF WritePage
<1>3. Rewriting /\ request # None /\ TypeOK /\ Placed /\ pc' # "write"
  BY <1>2 DEF IInv, TypeOK, Rewriting, Finish
<1>4. Content' = flash'
  BY <1>1, <1>3, ContentAfter DEF IInv
<1>5. Content' = Content
  BY <1>2, <1>4 DEF Content
<1>6. CASE request' = request
  <2>1. Asked' = Asked
    BY <1>6 DEF Asked, Span
  <2> QED
    BY <1>5, <2>1 DEF Abstract!storeVars
<1>7. CASE request' # request
  <2>1. request' = None /\ ~(done + Cardinality(Chunk) < request.size)
    BY <1>2, <1>7 DEF Finish
  <2>2. \A a \in Span(request) : a < ChunkEnd
    <3>1. request.from \in Nat /\ request.size \in Nat \ {0}
      BY <1>3, RequestInArea
    <3>2. /\ Cardinality(Chunk) = ChunkEnd - Here /\ ChunkEnd \in Nat
      BY <1>3, ChunkInterval
    <3>3. done \in Nat
      BY <1>3 DEF TypeOK
    <3> QED
      BY <2>1, <3>1, <3>2, <3>3 DEF Here, Span
  <2>3. \A a \in Span(request) : Content'[a] = request.value
    BY <1>4, <2>2, PageWritten
  <2> QED
    BY <1>1, <1>3, <1>5, <2>1, <2>3, DoneRefines
<1> QED
  BY <1>6, <1>7

\* The padded write, which the flash may refuse.
LEMMA SafWriteRefines ==
  ASSUME IInv, SafFits, SafWrite PROVE Abstract!Done \/ Abstract!Lose
<1>1. IInv'
  BY SafWriteStep
<1>2. pc = "saf_write" /\ Finish(request.size)
      /\ (SafSize % WriteBlock # 0 => flash' = flash)
  BY DEF SafWrite
<1>3. Logging /\ request # None /\ TypeOK /\ Placed
  BY <1>2 DEF IInv, TypeOK, Logging
<1>4. pc' = "idle" /\ request' = None /\ Span(request) \subseteq Bytes
  <2>1. request.size \in Nat
    BY <1>3, RequestInArea
  <2> QED
    BY <1>2, <1>3, <2>1 DEF Finish, TypeOK
<1>5. Content = flash /\ Content' = flash'
  <2>1. Content = flash
    BY <1>2, <1>3, ContentIs
  <2>2. Content' = flash'
    BY <1>1, <1>4, ContentAfter DEF IInv
  <2> QED
    BY <2>1, <2>2
<1>6. CASE Accepted(request)
  <2>1. \A a \in Bytes : flash'[a] = IF a \in Span(request) THEN request.value ELSE flash[a]
    BY <1>6, SafWritten
  <2> QED
    BY <1>1, <1>3, <1>4, <1>5, <2>1, DoneRefines
<1>7. CASE ~Accepted(request)
  <2>1. Content' = Content
    BY <1>2, <1>3, <1>5, <1>7, PaddedWrite
  <2>2. Asked' = None
    BY <1>4 DEF Asked
  <2> QED
    BY <2>1, <2>2 DEF Abstract!Lose
<1> QED
  BY <1>6, <1>7

\* Whole pages are erased.
LEMMA PagesEraseRefines ==
  ASSUME IInv, NEW page \in Bytes, NEW count \in 1..2, PagesErase(page, count)
  PROVE  Abstract!ErasePages
<1>1. IInv'
  BY PagesEraseStep
<1>2. /\ pc = "idle" /\ pc' = pc /\ request' = request /\ page % Page = 0
      /\ flash' = [a \in Bytes |-> IF a \in page .. (page + count * Page - 1) THEN Erased
                                   ELSE flash[a]]
  BY DEF PagesErase
<1>3. Content = flash /\ Content' = flash' /\ Asked = None /\ Asked' = None
  <2>1. Content = flash
    BY <1>2, ContentIs DEF IInv
  <2>2. Content' = flash'
    BY <1>1, <1>2, ContentAfter DEF IInv
  <2>3. request = None
    BY <1>2 DEF IInv, TypeOK
  <2> QED
    BY <1>2, <2>1, <2>2, <2>3 DEF Asked
<1>4. Page \in Nat \ {0} /\ page \in Nat
  BY Layout DEF Bytes
<1> DEFINE end == page + count * Page
<1>5. end \in Nat /\ end % Page = 0
  <2>1. page = (page \div Page) * Page /\ page \div Page \in Nat
    BY <1>2, <1>4, DivMod
  <2> DEFINE q == page \div Page
  <2>2. q \in Nat /\ end = (q + count) * Page + 0 /\ end \in Nat /\ q + count \in Nat
    <3>1. q \in Nat /\ page = q * Page
      BY <2>1
    <3> HIDE DEF q
    <3> QED
      BY <1>4, <3>1, SMT
  <2> HIDE DEF q, end
  <2> QED
    BY <1>4, <2>2, DivModUnique
<1> HIDE DEF end
<1>6. ASSUME NEW a \in Bytes, NEW b \in Bytes, flash'[a] # flash[a],
             a \div Page = b \div Page
      PROVE  flash'[b] = Erased
  <2>1. a \in Nat /\ b \in Nat
    BY DEF Bytes
  <2>2. page <= a /\ a < end
    BY <1>2, <1>4, <1>5, <1>6, <2>1 DEF end
  <2>3. page <= b
    BY <1>2, <1>4, <1>6, <2>1, <2>2, SameBlock
  <2>4. b < end
    <3>1. ASSUME end <= b PROVE end <= a
      <4>1. b \div Page = a \div Page
        BY <1>6
      <4> QED
        BY <1>4, <1>5, <2>1, <3>1, <4>1, SameBlock
    <3> QED
      BY <1>5, <2>1, <2>2, <3>1
  <2>5. b \in page .. (page + count * Page - 1)
    BY <1>4, <1>5, <2>1, <2>3, <2>4 DEF end
  <2> QED
    BY <1>2, <2>5
<1> QED
  BY <1>3, <1>6 DEF Abstract!ErasePages, Abstract!SamePage

\* A reset.
LEMMA ResetRefines == ASSUME IInv, SafFits, Reset PROVE Abstract!Lose
<1>1. IInv'
  BY ResetStep
<1>2. request' = None /\ pc' = "idle"
  BY DEF Reset
<1>3. Asked' = None /\ Content' = flash' /\ TypeOK /\ Placed
  <2>1. Content' = flash'
    BY <1>1, <1>2, ContentAfter DEF IInv
  <2> QED
    BY <1>2, <2>1 DEF IInv, Asked
<1>4. CASE pc \notin {"write", "saf_write"}
  <2>1. Content' = Content
    <3>1. Content = flash
      BY <1>3, <1>4, ContentIs
    <3>2. flash' = flash
      BY <1>4 DEF Reset
    <3> QED
      BY <1>3, <3>1, <3>2
  <2> QED
    BY <1>3, <2>1 DEF Abstract!Lose
<1>5. CASE pc = "write"
  <2>1. request # None /\ Rewriting
    BY <1>3, <1>5 DEF TypeOK, Rewriting
  <2>2. /\ PageStart \in Nat /\ PageStart % Page = 0 /\ Page \in Nat \ {0}
    BY <1>3, <2>1, PageInHand, Layout
  <2>3. ASSUME NEW a \in Bytes, Content'[a] # Content[a]
        PROVE  Content'[a] = Erased /\ a \div Page = PageStart \div Page
    <3>1. Content[a] = IF a - PageStart \in InPage THEN pageBuffer[a - PageStart]
                                                   ELSE flash[a]
      BY <1>3, <1>5, ContentIs
    <3>2. flash'[a] # flash[a] =>
            a - PageStart \in InPage /\ flash'[a] = pageBuffer[a - PageStart]
      BY <1>5, ResetLeaves
    <3>3. a - PageStart \in InPage /\ flash'[a] = flash[a]
      BY <1>3, <2>3, <3>1, <3>2
    <3>4. a \in Nat /\ PageStart + (a - PageStart) = a /\ PageStart <= a /\ a < PageStart + Page
      BY <2>2, <3>3 DEF Bytes, InPage
    <3>5. flash[a] = Erased
      BY <1>5, <3>3, <3>4 DEF IInv, Filled
    <3> QED
      BY <1>3, <2>2, <3>3, <3>4, <3>5, OneBlock
  <2>4. Asked # None
    BY <1>3, <2>1, AskedIs
  <2> QED
    BY <1>3, <2>3, <2>4 DEF Abstract!Lose, Abstract!SamePage
<1>6. CASE pc = "saf_write"
  <2>1. request # None /\ Logging
    BY <1>3, <1>6 DEF TypeOK, Logging
  <2>2. SafFrom \in Nat
    BY <1>3, <2>1, PaddedWrite
  <2>3. ASSUME NEW a \in Bytes, Content'[a] # Content[a]
        PROVE  a \in Span(request) /\ Content'[a] = request.value
    <3>1. Content[a] = flash[a]
      BY <1>3, <1>6, ContentIs
    <3>2. /\ a - SafFrom \in InPage /\ a - SafFrom < SafSize
          /\ flash'[a] = pageBuffer[a - SafFrom]
      BY <1>3, <1>6, <2>3, <3>1, ResetLeaves
    <3>3. SafFrom + (a - SafFrom) = a
      BY <2>2 DEF Bytes
    <3>4. pageBuffer[a - SafFrom] = IF a \in Span(request) THEN request.value ELSE flash[a]
      BY <1>6, <3>2, <3>3 DEF IInv, Padded
    <3> QED
      BY <1>3, <2>3, <3>1, <3>2, <3>4
  <2>4. /\ Asked # None /\ Asked.bytes = Span(request) /\ Asked.value = request.value
        /\ request.value # Erased
    BY <1>3, <2>1, AskedIs, Layout
  <2> QED
    BY <1>3, <2>3, <2>4 DEF Abstract!Lose
<1> QED
  BY <1>4, <1>5, <1>6

\* Every step is a step of the abstract store or changes nothing of it.
LEMMA NextRefines ==
  ASSUME SafFits, IInv, [Next]_vars PROVE [Abstract!Next]_Abstract!storeVars
<1> USE DEF Abstract!Next
<1>1. CASE \E ctx \in Contexts, offset \in Bytes, v \in Values :
             \E size \in IF ctx = "store_and_forward" THEN SafSizes ELSE Sizes :
               Store(ctx, offset, size, v)
  BY <1>1, StoreRefines
<1>2. CASE ReadPage \/ PadBuffer
  BY <1>2, BufferRefines
<1>3. CASE ErasePage
  BY <1>3, ErasePageRefines
<1>4. CASE WritePage
  BY <1>4, WritePageRefines
<1>5. CASE SafWrite
  BY <1>5, SafWriteRefines
<1>6. CASE \E page \in Bytes, count \in 1..2 : PagesErase(page, count)
  BY <1>6, PagesEraseRefines
<1>7. CASE Reset
  BY <1>7, ResetRefines
<1>8. CASE UNCHANGED vars
  BY <1>8 DEF vars, Abstract!storeVars, Content, Asked, PageStart, Span
<1> QED
  BY <1>1, <1>2, <1>3, <1>4, <1>5, <1>6, <1>7, <1>8 DEF Next

\* The storage implements ContextStore: a store changes the bytes it was asked
\* to change and no other, whatever else its pages hold, and a reset in the
\* middle of one costs at most the page in hand
\* (StoreSpec; smtc_modem_hal_storage.c:84-126, 153-226).
THEOREM Refinement == ASSUME SafFits PROVE Spec => StoreSpec
<1>1. IInv /\ [Next]_vars => [Abstract!Next]_Abstract!storeVars
  BY NextRefines
<1> QED
  BY Inductive, InitRefines, <1>1, PTL DEF Spec, StoreSpec, Abstract!Spec
=============================================================================
