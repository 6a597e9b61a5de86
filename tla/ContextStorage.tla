--------------------------- MODULE ContextStorage ---------------------------
(***************************************************************************)
(* The flash storage of the modem contexts                                 *)
(* (modules/smtc_modem_hal/smtc_modem_hal_storage.c): the layout of the    *)
(* contexts in the flash area, the read-modify-write of whole pages, the   *)
(* padded writes of the store-and-forward context, and a reset between any *)
(* two flash operations or in the middle of a write.                       *)
(*                                                                         *)
(* A buffer is abstracted to one value for all its bytes.  The flash and   *)
(* its driver are external: it erases whole pages, and refuses a write     *)
(* whose address or size is not a multiple of the write block.             *)
(***************************************************************************)
EXTENDS Integers, FiniteSets

CONSTANTS
  Slot,         \* distance of the first four contexts: 256
  FuotaOffset,  \* ADDR_FUOTA_CONTEXT_OFFSET: 4096
  SafOffset,    \* ADDR_STORE_AND_FORWARD_CONTEXT_OFFSET: 8192
  AreaSize,     \* fa_size of the flash area
  Page,         \* PAGE_BUFFER_SIZE, the erase block of the flash
  WriteBlock,   \* MIN_FLASH_WRITE_SIZE_BYTES
  Values,       \* contents of a buffer
  Erased,       \* 0xFF, which no buffer holds
  None,         \* no store in progress, none completed
  Sizes,        \* sizes of the stores, but
  SafSizes,     \* sizes of the store-and-forward stores
  MaxStores     \* bound of the stores explored

ASSUME ConstantsAssumption ==
  /\ {Slot, FuotaOffset, SafOffset, AreaSize, Page, WriteBlock} \subseteq Nat \ {0}
  /\ 4 * Slot <= FuotaOffset /\ FuotaOffset < SafOffset /\ SafOffset < AreaSize
  /\ \A n \in {FuotaOffset, SafOffset, AreaSize} : n % Page = 0
  /\ Page % WriteBlock = 0
  /\ Erased \notin Values
  /\ None \notin [from : Nat, size : Nat, value : Values]
  /\ None \notin [bytes : SUBSET (0..(AreaSize - 1)), value : Values]
  /\ Sizes \cup SafSizes \subseteq Nat \ {0}
  /\ MaxStores \in Nat

VARIABLES
  flash,       \* the flash area
  pageBuffer,  \* page_buffer
  request,     \* the store in progress: first address, size, value
  done,        \* size - remaining: how much of it is written
  pc,          \* the flash operation that comes next
  stores,      \* number of stores so far
  last         \* ghost: the last completed store, unless a reset came after

vars == <<flash, pageBuffer, request, done, pc, stores, last>>

Bytes    == 0..(AreaSize - 1)
InPage   == 0..(Page - 1)
Contexts == {"lorawan", "key_modem", "modem", "secure_element", "fuota",
             "store_and_forward"}

\* Mutant: the FUOTA context is laid out after the store-and-forward context.
ContextAddressFuotaLast(ctx) ==
  CASE ctx = "lorawan"           -> 0
    [] ctx = "key_modem"         -> Slot
    [] ctx = "modem"             -> 2 * Slot
    [] ctx = "secure_element"    -> 3 * Slot
    [] ctx = "fuota"             -> SafOffset + Page
    [] ctx = "store_and_forward" -> SafOffset

\* priv_hal_context_address
ContextAddress(ctx) ==
  CASE ctx = "lorawan"           -> 0
    [] ctx = "key_modem"         -> Slot
    [] ctx = "modem"             -> 2 * Slot
    [] ctx = "secure_element"    -> 3 * Slot
    [] ctx = "fuota"             -> FuotaOffset
    [] ctx = "store_and_forward" -> SafOffset

\* The room each context has before the next one, which its user respects.
Capacity(ctx) ==
  CASE ctx \in {"lorawan", "key_modem", "modem"} -> Slot
    [] ctx = "secure_element"    -> FuotaOffset - 3 * Slot
    [] ctx = "fuota"             -> SafOffset - FuotaOffset
    [] ctx = "store_and_forward" -> AreaSize - SafOffset

Init ==
  /\ flash = [a \in Bytes |-> Erased]
  /\ pageBuffer = [i \in InPage |-> Erased]
  /\ request = None /\ done = 0 /\ pc = "idle"
  /\ stores = 0 /\ last = None

Span(r) == r.from .. (r.from + r.size - 1)

-----------------------------------------------------------------------------
(* smtc_modem_hal_context_store                                            *)

Store(ctx, offset, size, v) ==
  /\ pc = "idle" /\ stores < MaxStores
  /\ offset + size <= Capacity(ctx)
  /\ request' = [from |-> ContextAddress(ctx) + offset, size |-> size, value |-> v]
  \* The log of the store-and-forward context only fills erased bytes.
  /\ ctx = "store_and_forward" => \A a \in Span(request') : flash[a] = Erased
  /\ done' = 0
  /\ pc' = IF request'.from < SafOffset THEN "read" ELSE "pad"
  /\ stores' = stores + 1
  /\ last' = None
  /\ UNCHANGED <<flash, pageBuffer>>

\* The page the next byte is in, and the part of the request in that page.
PageStart == LET next == request.from + done IN next - (next % Page)
Chunk     == {a \in Span(request) : a >= request.from + done /\ a < PageStart + Page}

\* Mutant: the page is not read before it is filled in.
ReadPageBlank ==
  /\ pc = "read"
  /\ pageBuffer' = [i \in InPage |-> IF PageStart + i \in Chunk THEN request.value
                                     ELSE Erased]
  /\ pc' = "erase"
  /\ UNCHANGED <<flash, request, done, stores, last>>

\* flash_read_modify_write: read the whole page and fill in the data ...
ReadPage ==
  /\ pc = "read"
  /\ pageBuffer' = [i \in InPage |-> IF PageStart + i \in Chunk THEN request.value
                                     ELSE flash[PageStart + i]]
  /\ pc' = "erase"
  /\ UNCHANGED <<flash, request, done, stores, last>>

\* ... erase it ...
ErasePage ==
  /\ pc = "erase"
  /\ flash' = [a \in Bytes |-> IF a - PageStart \in InPage THEN Erased ELSE flash[a]]
  /\ pc' = "write"
  /\ UNCHANGED <<pageBuffer, request, done, stores, last>>

Finish(n) ==
  IF n < request.size THEN pc' = "read" /\ done' = n /\ UNCHANGED <<request, last>>
  ELSE pc' = "idle" /\ done' = 0 /\ request' = None /\ last' = request

\* ... and write it back, then go on with the next page.
WritePage ==
  /\ pc = "write"
  /\ flash' = [a \in Bytes |-> IF a - PageStart \in InPage THEN pageBuffer[a - PageStart]
                               ELSE flash[a]]
  /\ Finish(done + Cardinality(Chunk))
  /\ UNCHANGED <<pageBuffer, stores>>

\* The padded write: its padding in front, its first address, its size.
Padding == request.from % WriteBlock
SafFrom == request.from - Padding
SafSize == IF request.size + Padding < WriteBlock THEN WriteBlock
                                                  ELSE request.size + Padding

\* Mutant: the data is copied to the start of the buffer.
PadBufferUnshifted ==
  /\ pc = "pad"
  /\ pageBuffer' = [i \in InPage |->
       IF i < request.size THEN request.value
       ELSE IF i < SafSize THEN flash[SafFrom + i] ELSE pageBuffer[i]]
  /\ pc' = "saf_write"
  /\ UNCHANGED <<flash, request, done, stores, last>>

PadBuffer ==
  /\ pc = "pad"
  /\ pageBuffer' = [i \in InPage |->
       IF i \in Padding .. (Padding + request.size - 1) THEN request.value
       ELSE IF i < SafSize THEN flash[SafFrom + i] ELSE pageBuffer[i]]
  /\ pc' = "saf_write"
  /\ UNCHANGED <<flash, request, done, stores, last>>

\* The result of the write is not looked at.
SafWrite ==
  /\ pc = "saf_write"
  /\ flash' = IF SafSize % WriteBlock # 0 THEN flash
              ELSE [a \in Bytes |-> IF a - SafFrom \in 0..(SafSize - 1)
                                    THEN pageBuffer[a - SafFrom] ELSE flash[a]]
  /\ Finish(request.size)
  /\ UNCHANGED <<pageBuffer, stores>>

-----------------------------------------------------------------------------
\* smtc_modem_hal_context_flash_pages_erase, of the store-and-forward pages
PagesErase(page, count) ==
  /\ pc = "idle"
  /\ page >= SafOffset /\ page % Page = 0 /\ page + count * Page <= AreaSize
  /\ flash' = [a \in Bytes |-> IF a \in page .. (page + count * Page - 1) THEN Erased
                               ELSE flash[a]]
  /\ last' = None
  /\ UNCHANGED <<pageBuffer, request, done, pc, stores>>

\* A reset: an erase has happened or not, a write has got to any write block.
Reset ==
  /\ \E n \in {k \in 0..Page : k % WriteBlock = 0} :
       LET from == IF pc = "saf_write" THEN SafFrom ELSE PageStart
           size == IF pc = "saf_write" /\ SafSize % WriteBlock # 0 THEN 0 ELSE n
       IN flash' = IF pc \notin {"write", "saf_write"} THEN flash
                   ELSE [a \in Bytes |-> IF a - from \in InPage /\ a - from < size
                                            /\ (pc = "saf_write" => a - from < SafSize)
                                         THEN pageBuffer[a - from] ELSE flash[a]]
  /\ pageBuffer' = [i \in InPage |-> Erased]
  /\ request' = None /\ done' = 0 /\ pc' = "idle"
  /\ last' = None
  /\ UNCHANGED stores

Next ==
  \/ \E ctx \in Contexts, offset \in Bytes, v \in Values :
       \E size \in IF ctx = "store_and_forward" THEN SafSizes ELSE Sizes :
         Store(ctx, offset, size, v)
  \/ ReadPage \/ ErasePage \/ WritePage
  \/ PadBuffer \/ SafWrite
  \/ \E page \in Bytes, count \in 1..2 : PagesErase(page, count)
  \/ Reset

Spec == Init /\ [][Next]_vars

-----------------------------------------------------------------------------
\* Type invariant.
TypeOK ==
  /\ flash \in [Bytes -> Values \cup {Erased}]
  /\ pageBuffer \in [InPage -> Values \cup {Erased}]
  /\ request # None => /\ request.value \in Values
                       /\ request.from \in Nat /\ request.size \in Nat
                       /\ Span(request) \subseteq Bytes
  /\ request = None <=> pc = "idle"
  /\ done \in Nat
  /\ pc \in {"idle", "read", "erase", "write", "pad", "saf_write"}
  /\ stores \in 0..MaxStores

\* What a completed store wrote is what a restore reads, over page boundaries
\* and with padding (smtc_modem_hal_storage.c:128-135, 190-226).
StoredIsRestored == last # None => \A a \in Span(last) : flash[a] = last.value

\* The same for the store-and-forward context and a store of any size:
\* "Align data and pad it" (smtc_modem_hal_storage.c:206).
SafStoreAligned ==
  last # None /\ last.from >= SafOffset => \A a \in Span(last) : flash[a] = last.value

\* The page in hand counts as what it will be written back as.
Content ==
  [a \in Bytes |-> IF pc = "write" /\ a - PageStart \in InPage
                   THEN pageBuffer[a - PageStart] ELSE flash[a]]

Asked == IF request = None THEN None
         ELSE [bytes |-> Span(request), value |-> request.value]

Abstract == INSTANCE ContextStore WITH content <- Content, asked <- Asked

\* The storage implements ContextStore: the store of one context never reaches
\* the bytes of another, in the same page or not, and a reset damages the page
\* in hand and no other (smtc_modem_hal_storage.c:84-126, 153-226).
StoreSpec == Abstract!Spec
=============================================================================
