------------------------------ MODULE GetBits ------------------------------
(***************************************************************************)
(* libs/common/src/GetBits.cc: the bit reader under every parser.          *)
(*                                                                         *)
(* The state is that of the class.  A call of getBits or skipBits runs its *)
(* loop one iteration per step, so that each iteration can be looked at;   *)
(* `op` says which loop is running, and a_requestedBits, ret and words are *)
(* its local variables.  A bit of the buffer is known by its number, so a  *)
(* value read is the sequence of the numbers of its bits, most significant *)
(* first.                                                                  *)
(***************************************************************************)
EXTENDS Integers, Sequences

CONSTANTS
  Requests,      (* Bit counts getBits is called with.                     *)
  LongSkips,     (* Bit counts above 64 skipBits is called with.           *)
  ByteSkips,     (* Byte counts skipBytes is called with.                  *)
  Sizes,         (* Sizes, in bytes, of the buffers resetBits is given.    *)
  MaxOverrun     (* Bound: a skip starts less than this many bytes past    *)
                 (* the end; each refused skip moves mSrcInx on by 8.      *)

ASSUME RequestsAssumption  == Requests \subseteq Nat
ASSUME LongSkipsAssumption == LongSkips \subseteq {n \in Nat : n > 64}
ASSUME ByteSkipsAssumption == ByteSkips \subseteq Nat
ASSUME SizesAssumption     == Sizes \subseteq Nat
ASSUME OverrunAssumption   == MaxOverrun \in Nat

VARIABLES
  mNumStoredBits,   (* Bits of the current byte not handed out yet.        *)
  mBitStore,        (* Those bits.                                         *)
  mSrcInx,          (* Index of the next byte to load.                     *)
  mSize,            (* Size of the buffer in bytes.                        *)
  mSrcBytes,        (* Whether there is a buffer (a null pointer if not).  *)
  op,               (* "idle", or the loop that is running.                *)
  a_requestedBits,  (* Bits the running getBits still has to deliver.      *)
  ret,              (* Bits the running getBits has gathered.              *)
  a_skipBits,       (* What the last skipBits of more than 64 bits was     *)
                    (* asked for; 0 after any other call.                  *)
  words,            (* 64-bit words that skipBits still has to skip.       *)
  start,            (* History: where the cursor was when the call began.  *)
  result            (* Outcome of the last call.                           *)

store  == <<mNumStoredBits, mBitStore, mSrcInx>>
source == <<mSize, mSrcBytes>>
locals == <<op, a_requestedBits, ret, a_skipBits, words, start>>
vars   == <<store, source, locals, result>>

ByteBits  == 8
WordBits  == 64
WordBytes == 8

None         == [outcome |-> "none",  bits |-> <<>>]
Thrown       == [outcome |-> "throw", bits |-> <<>>]
Done(bits)   == [outcome |-> "ok",    bits |-> bits]

\* Number of the next bit that will be handed out.
cursor == ByteBits * mSrcInx - mNumStoredBits

\* The bits of byte number inx.
SrcByte(inx) == [i \in 1..ByteBits |-> ByteBits * inx + i - 1]

\* The test in front of every load.
ExhaustedLate == mSrcInx > mSize                              \* mutant
Exhausted == mSrcInx >= mSize

\* Bits one iteration takes from a store that holds `held`.
TakenAll(held, requested) == held                             \* mutant
TakenStrict(held, requested) ==                               \* mutant
  IF held > requested THEN requested ELSE IF held < requested THEN held ELSE 0
Taken(held, requested) == IF held > requested THEN requested ELSE held

\* Whole words in a skip of n bits.
WordsRoundedUp(n) == (n + WordBits - 1) \div WordBits         \* mutant
Words(n) == n \div WordBits

ForgetCount == mNumStoredBits' = 0 /\ UNCHANGED mBitStore     \* mutant
EmptyStore == mNumStoredBits' = 0 /\ mBitStore' = <<>>

Init ==
  /\ mNumStoredBits = 0 /\ mBitStore = <<>> /\ mSrcInx = 0
  /\ mSize = 0 /\ mSrcBytes = FALSE
  /\ op = "idle" /\ a_requestedBits = 0 /\ ret = <<>>
  /\ a_skipBits = 0 /\ words = 0 /\ start = 0
  /\ result = None

-----------------------------------------------------------------------------
\* resetBits(a_srcBytes, a_srcSize, a_inx)
ResetBits(bytes, inx) ==
  /\ op = "idle"
  /\ EmptyStore
  /\ mSrcInx' = inx
  /\ mSize' = bytes
  /\ mSrcBytes' = TRUE
  /\ result' = None
  /\ a_skipBits' = 0
  /\ UNCHANGED <<op, a_requestedBits, ret, words, start>>

-----------------------------------------------------------------------------
\* getBits(n): the checks before the loop, its iterations and its two exits.
EnterGetBits(n) ==
  /\ op' = "getBits"
  /\ a_requestedBits' = n
  /\ ret' = <<>>

CallGetBits(n) ==
  /\ op = "idle"
  /\ mSrcBytes /\ n <= WordBits
  /\ EnterGetBits(n)
  /\ a_skipBits' = 0
  /\ start' = cursor
  /\ UNCHANGED <<store, source, words, result>>

RefuseGetBits(n) ==
  /\ op = "idle"
  /\ ~mSrcBytes \/ n > WordBits
  /\ result' = Thrown
  /\ a_skipBits' = 0
  /\ UNCHANGED <<store, source, op, a_requestedBits, ret, words, start>>

\* One iteration: load a byte if the store is empty, then take from the store.
TakeBits ==
  /\ op = "getBits" /\ a_requestedBits > 0
  /\ mNumStoredBits = 0 => ~Exhausted
  /\ LET empty  == mNumStoredBits = 0
         held   == IF empty THEN ByteBits ELSE mNumStoredBits
         bits   == IF empty THEN SrcByte(mSrcInx) ELSE mBitStore
         taken  == Taken(held, a_requestedBits)
     IN  /\ mSrcInx' = IF empty THEN mSrcInx + 1 ELSE mSrcInx
         /\ ret' = ret \o SubSeq(bits, 1, taken)
         /\ a_requestedBits' = a_requestedBits - taken
         /\ mNumStoredBits' = held - taken
         /\ mBitStore' = SubSeq(bits, taken + 1, Len(bits))
  /\ UNCHANGED <<source, op, a_skipBits, words, start, result>>

Return ==
  /\ op = "getBits" /\ a_requestedBits = 0
  /\ op' = "idle"
  /\ result' = Done(ret)
  /\ ret' = <<>>
  /\ UNCHANGED <<store, source, a_requestedBits, a_skipBits, words, start>>

\* The loop finds the buffer exhausted; what it took is gone.
OutOfBounds ==
  /\ op = "getBits" /\ a_requestedBits > 0
  /\ mNumStoredBits = 0 /\ Exhausted
  /\ op' = "idle" /\ a_requestedBits' = 0 /\ ret' = <<>>
  /\ result' = Thrown
  /\ UNCHANGED <<store, source, a_skipBits, words, start>>

-----------------------------------------------------------------------------
\* skipBits(n): up to 64 bits are read and dropped (CallGetBits); more are
\* skipped a 64-bit word at a time, the remainder is then read and dropped.
CallSkipBits(n) ==
  /\ op = "idle"
  /\ n > WordBits /\ mSrcInx < mSize + MaxOverrun
  /\ op' = "skipBits"
  /\ a_skipBits' = n
  /\ words' = Words(n)
  /\ a_requestedBits' = n % WordBits
  /\ start' = cursor
  /\ UNCHANGED <<store, source, ret, result>>

SkipWord ==
  /\ op = "skipBits" /\ words > 0
  /\ EmptyStore
  /\ mSrcInx' = mSrcInx + WordBytes
  /\ \/ /\ mSrcInx' < mSize
        /\ words' = words - 1
        /\ UNCHANGED <<op, a_requestedBits, result>>
     \/ /\ mSrcInx' >= mSize
        /\ op' = "idle" /\ words' = 0 /\ a_requestedBits' = 0
        /\ result' = Thrown
  /\ UNCHANGED <<source, ret, a_skipBits, start>>

SkipRemainder ==
  /\ op = "skipBits" /\ words = 0
  /\ EnterGetBits(a_requestedBits)
  /\ UNCHANGED <<store, source, a_skipBits, words, start, result>>

-----------------------------------------------------------------------------
\* skipBytes(n)
SkipBytes(n) ==
  /\ op = "idle"
  /\ \/ /\ mSrcInx + n >= mSize
        /\ result' = Thrown
        /\ UNCHANGED store
     \/ /\ mSrcInx + n < mSize
        /\ EmptyStore
        /\ mSrcInx' = mSrcInx + n
        /\ UNCHANGED result
  /\ a_skipBits' = 0
  /\ UNCHANGED <<source, op, a_requestedBits, ret, words, start>>

\* getByteInx()
nextLoad == mSrcInx                                           \* mutant
getByteInx == IF mNumStoredBits = 0 THEN mSrcInx ELSE mSrcInx - 1

-----------------------------------------------------------------------------
Loops == TakeBits \/ Return \/ OutOfBounds \/ SkipWord \/ SkipRemainder

Calls ==
  \/ \E bytes \in Sizes, inx \in 0..1 : ResetBits(bytes, inx)
  \/ \E n \in Requests : CallGetBits(n) \/ RefuseGetBits(n)
  \/ \E n \in LongSkips : CallSkipBits(n)
  \/ \E n \in ByteSkips : SkipBytes(n)

Next == Calls \/ Loops

Spec == Init /\ [][Next]_vars

\* Every loop runs to its end: the calls are synchronous.
FairSpec == Spec /\ WF_vars(Loops)

-----------------------------------------------------------------------------
(* Properties *)

Outcomes == {"none", "ok", "throw"}

\* The members of the class and the locals of the running call have their
\* types; a whole byte is never left in the store.
TypeOK ==
  /\ mNumStoredBits \in 0..(ByteBits - 1) /\ mBitStore \in Seq(Nat)
  /\ mSrcInx \in Nat /\ mSize \in Nat /\ mSrcBytes \in BOOLEAN
  /\ op \in {"idle", "getBits", "skipBits"}
  /\ a_requestedBits \in 0..WordBits /\ ret \in Seq(Nat)
  /\ a_skipBits \in LongSkips \cup {0} /\ words \in Nat /\ start \in Nat
  /\ result \in [outcome : Outcomes, bits : Seq(Nat)]

\* The store holds the unread tail of the byte before mSrcInx, in order: its
\* bits are the ones the cursor points at.
StoreIsTail ==
  /\ Len(mBitStore) = mNumStoredBits
  /\ \A i \in 1..mNumStoredBits : mBitStore[i] = cursor + i - 1
  /\ mNumStoredBits > 0 => mSrcInx > 0

\* While getBits runs for a caller, what it has gathered is the gap between
\* the cursor and the place where the call began, whatever the byte
\* boundaries in between.
GatheredIsGap ==
  op = "getBits" /\ a_skipBits = 0 =>
    /\ mSrcBytes
    /\ Len(ret) = cursor - start
    /\ \A i \in 1..Len(ret) : ret[i] = start + i - 1
    /\ ret # <<>> => cursor <= ByteBits * mSize
    /\ Len(ret) + a_requestedBits \in Requests
    /\ Len(ret) + a_requestedBits <= WordBits

\* No byte outside the buffer is ever loaded: only resetBits, or a skip that
\* has already been answered with an exception, puts the index past the end.
InBuffer ==
  mNumStoredBits > 0 => mSrcInx <= mSize

\* The word loop of skipBits is told apart from a getBits a caller made.
SkipIsMarked == op = "skipBits" => a_skipBits # 0

\* The inductive invariant: what a call relies on between two iterations.
IInv == TypeOK /\ StoreIsTail /\ GatheredIsGap /\ InBuffer /\ SkipIsMarked

\* getByteInx, from which the offset of a packet's payload is computed, is the
\* byte of the next bit.
ByteInxIsCursorByte == getByteInx = cursor \div ByteBits

Reader == INSTANCE BitReader WITH
  pos      <- IF op = "idle" THEN cursor ELSE start,
  size     <- ByteBits * mSize,
  attached <- mSrcBytes

\* GetBits is a cursor over bits: a call that ends delivers exactly the bits
\* after the place where it began, or throws (getBits, skipBits of at most 64
\* bits, skipBytes, resetBits), also when a longer skip, which BitReader says
\* nothing about, went before.
ImplementsBitReader ==
  Reader!Init /\ [][a_skipBits' = 0 => Reader!Next]_(Reader!vars)

\* Every call returns to its caller.
CallsReturn == op # "idle" ~> op = "idle"

SkipDone == op = "idle" /\ a_skipBits > 0

\* skipBits of more than 64 bits is exact when the cursor is on a byte
\* boundary and the skip ends strictly inside the buffer.
AlignedSkipIsExact ==
  SkipDone /\ start % ByteBits = 0 /\ start + a_skipBits < ByteBits * mSize =>
    result.outcome = "ok" /\ cursor = start + a_skipBits
=============================================================================
