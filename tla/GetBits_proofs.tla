--------------------------- MODULE GetBits_proofs ---------------------------
(***************************************************************************)
(* Proofs about GetBits for every set of requests, skips and buffer sizes: *)
(* the inductive invariant IInv, and that GetBits implements BitReader     *)
(* when no skip of more than 64 bits is made.                              *)
(***************************************************************************)
EXTENDS GetBits, SequenceTheorems, TLAPS

(* The bits of one byte, as SrcByte numbers them. *)
LEMMA SrcByteBits ==
  ASSUME NEW inx \in Nat
  PROVE  /\ SrcByte(inx) \in Seq(Nat)
         /\ Len(SrcByte(inx)) = ByteBits
         /\ \A i \in 1..ByteBits : SrcByte(inx)[i] = ByteBits * inx + i - 1
<1>1. \A i \in 1..8 : 8 * inx + i - 1 \in Nat
  OBVIOUS
<1> QED
  BY <1>1 DEF SrcByte, ByteBits

(* How an iteration splits the store: what it takes and what it leaves. *)
LEMMA SplitStore ==
  ASSUME NEW s \in Seq(Nat), NEW k \in 0..Len(s)
  PROVE  /\ SubSeq(s, 1, k) \in Seq(Nat)
         /\ Len(SubSeq(s, 1, k)) = k
         /\ \A i \in 1..k : SubSeq(s, 1, k)[i] = s[i]
         /\ SubSeq(s, k + 1, Len(s)) \in Seq(Nat)
         /\ Len(SubSeq(s, k + 1, Len(s))) = Len(s) - k
         /\ \A i \in 1..(Len(s) - k) : SubSeq(s, k + 1, Len(s))[i] = s[k + i]
<1>1. Len(s) \in Nat /\ \A i \in 1..Len(s) : s[i] \in Nat
  OBVIOUS
<1> QED
  BY <1>1

(* What the loop appends to ret. *)
LEMMA Gather ==
  ASSUME NEW s \in Seq(Nat), NEW t \in Seq(Nat)
  PROVE  /\ s \o t \in Seq(Nat)
         /\ Len(s \o t) = Len(s) + Len(t)
         /\ \A i \in 1..Len(s) : (s \o t)[i] = s[i]
         /\ \A i \in 1..Len(t) : (s \o t)[Len(s) + i] = t[i]
<1> QED
  OBVIOUS

-----------------------------------------------------------------------------
USE DEF ByteBits, WordBits, WordBytes

LEMMA InitIInv == Init => IInv
<1> SUFFICES ASSUME Init PROVE IInv
  OBVIOUS
<1>0. <<>> \in Seq(Nat) /\ None \in [outcome : Outcomes, bits : Seq(Nat)]
  BY DEF None, Outcomes
<1>1. /\ mNumStoredBits \in 0..(ByteBits - 1) /\ mSrcInx \in Nat /\ mSize \in Nat
      /\ a_requestedBits \in 0..WordBits
      /\ a_skipBits \in LongSkips \cup {0} /\ words \in Nat /\ start \in Nat
  BY DEF Init
<1>2. mBitStore \in Seq(Nat) /\ ret \in Seq(Nat) /\ result \in [outcome : Outcomes, bits : Seq(Nat)]
  BY <1>0 DEF Init
<1>3. mSrcBytes \in BOOLEAN /\ op \in {"idle", "getBits", "skipBits"}
  BY DEF Init
<1>3a. TypeOK
  BY <1>1, <1>2, <1>3 DEF TypeOK
<1>4. StoreIsTail /\ GatheredIsGap /\ InBuffer /\ SkipIsMarked
  BY DEF Init, StoreIsTail, GatheredIsGap, InBuffer, SkipIsMarked
<1> QED
  BY <1>3a, <1>4 DEF IInv

(* The iteration that loads and takes bits is the heart of the class. *)
LEMMA TakeBitsIInv == IInv /\ TakeBits => IInv'
<1> SUFFICES ASSUME IInv, TakeBits PROVE IInv'
  OBVIOUS
<1> DEFINE empty == mNumStoredBits = 0
           held  == IF empty THEN ByteBits ELSE mNumStoredBits
           bits  == IF empty THEN SrcByte(mSrcInx) ELSE mBitStore
           taken == Taken(held, a_requestedBits)
           inx   == IF empty THEN mSrcInx + 1 ELSE mSrcInx
<1>types. TypeOK /\ StoreIsTail /\ GatheredIsGap /\ InBuffer
  BY DEF IInv
<1>step. /\ op = "getBits" /\ a_requestedBits > 0
         /\ empty => mSrcInx < mSize
         /\ mSrcInx' = inx
         /\ ret' = ret \o SubSeq(bits, 1, taken)
         /\ a_requestedBits' = a_requestedBits - taken
         /\ mNumStoredBits' = held - taken
         /\ mBitStore' = SubSeq(bits, taken + 1, Len(bits))
         /\ UNCHANGED <<source, op, a_skipBits, words, start, result>>
  BY <1>types DEF TakeBits, Exhausted, TypeOK
<1>num. /\ mNumStoredBits \in 0..7 /\ mSrcInx \in Nat /\ mSize \in Nat
        /\ a_requestedBits \in 0..64
  BY <1>types DEF TypeOK
<1>held. /\ held \in 1..ByteBits
         /\ bits \in Seq(Nat) /\ Len(bits) = held
         /\ inx \in Nat /\ inx > 0
         /\ \A i \in 1..held : bits[i] = ByteBits * inx - held + i - 1
  <2>1. CASE empty
    <3>1. held = 8 /\ bits = SrcByte(mSrcInx) /\ inx = mSrcInx + 1
      BY <2>1
    <3>2. mSrcInx \in Nat
      BY <1>types DEF TypeOK
    <3>3. /\ bits \in Seq(Nat) /\ Len(bits) = held
          /\ \A i \in 1..held : bits[i] = ByteBits * mSrcInx + i - 1
      BY <3>1, <3>2, SrcByteBits
    <3> HIDE DEF empty, held, bits, inx
    <3> QED
      BY <3>1, <3>2, <3>3
  <2>2. CASE ~empty
    BY <2>2, <1>types DEF TypeOK, StoreIsTail, cursor
  <2> QED
    BY <2>1, <2>2
<1>cursor. ByteBits * inx - held = cursor /\ cursor \in Nat
  BY <1>types, <1>held DEF TypeOK, StoreIsTail, cursor
<1>taken. taken \in 1..held /\ taken <= a_requestedBits
  BY <1>types, <1>step, <1>held DEF TypeOK, Taken
<1> HIDE DEF empty, held, bits, taken, inx
<1>split. /\ SubSeq(bits, 1, taken) \in Seq(Nat)
          /\ Len(SubSeq(bits, 1, taken)) = taken
          /\ \A i \in 1..taken : SubSeq(bits, 1, taken)[i] = bits[i]
          /\ mBitStore' \in Seq(Nat)
          /\ Len(mBitStore') = held - taken
          /\ \A i \in 1..(held - taken) : mBitStore'[i] = bits[taken + i]
  <2>1. taken \in 0..Len(bits) /\ bits \in Seq(Nat) /\ Len(bits) = held
    BY <1>held, <1>taken
  <2> QED
    BY <2>1, <1>step, SplitStore
<1>cursorPrime. cursor' = cursor + taken
  BY <1>step, <1>cursor, <1>held, <1>taken DEF cursor
<1>1. TypeOK'
  <2>1. ret' \in Seq(Nat)
    BY <1>types, <1>step, <1>split, Gather DEF TypeOK
  <2>2. /\ mNumStoredBits' \in 0..(ByteBits - 1) /\ mSrcInx' \in Nat
        /\ a_requestedBits' \in 0..WordBits
    BY <1>num, <1>step, <1>held, <1>taken
  <2>3. UNCHANGED <<mSize, mSrcBytes, op, a_skipBits, words, start, result>>
    BY <1>step DEF source
  <2> QED
    BY <1>types, <1>split, <2>1, <2>2, <2>3 DEF TypeOK
<1>2. StoreIsTail'
  <2>1. \A i \in 1..(held - taken) : mBitStore'[i] = cursor' + i - 1
    <3> TAKE i \in 1..(held - taken)
    <3>1. taken + i \in 1..held
      BY <1>held, <1>taken
    <3>2. mBitStore'[i] = ByteBits * inx - held + (taken + i) - 1
      BY <3>1, <1>split, <1>held
    <3> QED
      BY <3>2, <1>held, <1>cursor, <1>cursorPrime, <1>taken
  <2> QED
    BY <2>1, <1>step, <1>split, <1>held, <1>taken DEF StoreIsTail
<1>3. GatheredIsGap'
  <2> SUFFICES ASSUME a_skipBits = 0
               PROVE  GatheredIsGap'
    BY <1>step DEF GatheredIsGap
  <2>gap. /\ mSrcBytes /\ Len(ret) = cursor - start
          /\ \A i \in 1..Len(ret) : ret[i] = start + i - 1
          /\ Len(ret) + a_requestedBits \in Requests
          /\ Len(ret) + a_requestedBits <= WordBits
    BY <1>types, <1>step DEF GatheredIsGap
  <2>ret. /\ ret' \in Seq(Nat) /\ Len(ret') = Len(ret) + taken
          /\ \A i \in 1..Len(ret) : ret'[i] = ret[i]
          /\ \A i \in 1..taken : ret'[Len(ret) + i] = bits[i]
    <3> DEFINE t == SubSeq(bits, 1, taken)
    <3>1. ret \in Seq(Nat) /\ t \in Seq(Nat) /\ ret' = ret \o t /\ Len(t) = taken
      BY <1>types, <1>step, <1>split DEF TypeOK
    <3>2. \A i \in 1..taken : t[i] = bits[i]
      BY <1>split
    <3> HIDE DEF t
    <3> QED
      BY <3>1, <3>2, Gather
  <2>num. start \in Nat /\ Len(ret) \in Nat /\ a_requestedBits \in Nat /\ mSize \in Nat
    BY <1>types DEF TypeOK
  <2>1. \A i \in 1..Len(ret') : ret'[i] = start + i - 1
    <3> TAKE i \in 1..Len(ret')
    <3>1. CASE i <= Len(ret)
      BY <3>1, <2>gap, <2>ret, <2>num
    <3>2. CASE i > Len(ret)
      <4>1. i - Len(ret) \in 1..taken /\ Len(ret) + (i - Len(ret)) = i
        BY <3>2, <2>ret, <2>num, <1>taken, <1>held
      <4>2. ret'[i] = bits[i - Len(ret)]
        BY <4>1, <2>ret
      <4>3. bits[i - Len(ret)] = cursor + (i - Len(ret)) - 1
        BY <4>1, <1>held, <1>cursor, <1>taken
      <4> QED
        BY <4>1, <4>2, <4>3, <2>gap, <2>num, <1>cursor
    <3> QED
      BY <3>1, <3>2, <2>num
  <2>2. cursor' <= ByteBits * mSize'
    <3>1. inx <= mSize
      BY <1>types, <1>step, <2>num DEF inx, empty, InBuffer, TypeOK
    <3> QED
      BY <3>1, <1>cursor, <1>cursorPrime, <1>held, <1>taken, <1>step, <2>num DEF source
  <2>3. Len(ret') = cursor' - start'
    BY <2>gap, <2>ret, <2>num, <1>cursor, <1>cursorPrime, <1>step, <1>taken, <1>held
  <2>4. Len(ret') + a_requestedBits' = Len(ret) + a_requestedBits
    BY <2>ret, <2>num, <1>step, <1>taken, <1>held
  <2> QED
    BY <2>gap, <2>1, <2>2, <2>3, <2>4, <1>step DEF GatheredIsGap, source
<1>4. InBuffer'
  BY <1>num, <1>types, <1>step DEF InBuffer, inx, empty, source
<1>5. SkipIsMarked'
  BY <1>step DEF SkipIsMarked
<1> QED
  BY <1>1, <1>2, <1>3, <1>4, <1>5 DEF IInv

(* Dropping what is stored leaves an empty tail. *)
LEMMA EmptyStoreIsTail ==
  ASSUME TypeOK, EmptyStore, mSrcInx' \in Nat
  PROVE  StoreIsTail' /\ InBuffer' /\ mNumStoredBits' \in 0..(ByteBits - 1)
                      /\ mBitStore' \in Seq(Nat) /\ Len(mBitStore') = 0
<1>1. mBitStore' = <<>> /\ mNumStoredBits' = 0
  BY DEF EmptyStore
<1>2. <<>> \in Seq(Nat) /\ Len(<<>>) = 0
  OBVIOUS
<1> QED
  BY <1>1, <1>2 DEF StoreIsTail, InBuffer

(* Steps that leave the store alone keep its invariants. *)
LEMMA SameStore ==
  ASSUME IInv, UNCHANGED store, UNCHANGED mSize
  PROVE  StoreIsTail' /\ InBuffer' /\ cursor' = cursor
BY DEF IInv, store, StoreIsTail, InBuffer, cursor

LEMMA CursorType == TypeOK /\ StoreIsTail => cursor \in Nat
BY DEF TypeOK, StoreIsTail, cursor

LEMMA Outcome ==
  /\ None \in [outcome : Outcomes, bits : Seq(Nat)]
  /\ Thrown \in [outcome : Outcomes, bits : Seq(Nat)]
  /\ \A s \in Seq(Nat) : Done(s) \in [outcome : Outcomes, bits : Seq(Nat)]
<1>1. <<>> \in Seq(Nat)
  OBVIOUS
<1> QED
  BY <1>1 DEF None, Thrown, Done, Outcomes

(* The calls: what is checked before a loop starts. *)
LEMMA CallsIInv == IInv /\ Calls => IInv'
<1> SUFFICES ASSUME IInv, Calls PROVE IInv'
  OBVIOUS
<1>types. TypeOK /\ StoreIsTail /\ InBuffer /\ cursor \in Nat
  BY CursorType DEF IInv
<1>1. ASSUME NEW bytes \in Sizes, NEW inx \in 0..1, ResetBits(bytes, inx)
      PROVE  IInv'
  <2>1. bytes \in Nat /\ inx \in Nat
    BY SizesAssumption
  <2>2. StoreIsTail' /\ InBuffer' /\ mNumStoredBits' \in 0..(ByteBits - 1) /\ mBitStore' \in Seq(Nat)
    BY <1>types, <1>1, <2>1, EmptyStoreIsTail DEF ResetBits
  <2>3. TypeOK'
    BY <1>types, <1>1, <2>1, <2>2, Outcome DEF ResetBits, TypeOK
  <2> QED
    BY <2>2, <2>3, <1>1 DEF IInv, ResetBits, GatheredIsGap, SkipIsMarked
<1>2. ASSUME NEW n \in Requests, CallGetBits(n) PROVE IInv'
  <2>1. n \in 0..WordBits /\ <<>> \in Seq(Nat) /\ Len(<<>>) = 0
    BY <1>2, RequestsAssumption DEF CallGetBits
  <2>2. TypeOK'
    BY <1>types, <1>2, <2>1 DEF CallGetBits, EnterGetBits, TypeOK, store, source
  <2>3. StoreIsTail' /\ InBuffer' /\ cursor' = cursor
    BY <1>2, SameStore DEF CallGetBits, source
  <2>4. GatheredIsGap'
    BY <1>2, <2>1, <2>3, <1>types DEF CallGetBits, EnterGetBits, GatheredIsGap, source
  <2> QED
    BY <1>2, <2>2, <2>3, <2>4 DEF CallGetBits, EnterGetBits, IInv, SkipIsMarked
<1>3. ASSUME NEW n \in Requests, RefuseGetBits(n) PROVE IInv'
  <2>1. StoreIsTail' /\ InBuffer'
    BY <1>3, SameStore DEF RefuseGetBits, source
  <2>2. TypeOK'
    BY <1>types, <1>3, Outcome DEF RefuseGetBits, TypeOK, store, source
  <2> QED
    BY <1>3, <2>1, <2>2 DEF RefuseGetBits, IInv, GatheredIsGap, SkipIsMarked
<1>4. ASSUME NEW n \in LongSkips, CallSkipBits(n) PROVE IInv'
  <2>1. /\ n \in Nat /\ n # 0 /\ Words(n) \in Nat /\ n % WordBits \in 0..WordBits
    BY LongSkipsAssumption DEF Words
  <2>2. TypeOK'
    BY <1>types, <1>4, <2>1 DEF CallSkipBits, TypeOK, store, source
  <2>3. StoreIsTail' /\ InBuffer'
    BY <1>4, SameStore DEF CallSkipBits, source
  <2> QED
    BY <1>4, <2>1, <2>2, <2>3 DEF CallSkipBits, IInv, GatheredIsGap, SkipIsMarked
<1>5. ASSUME NEW n \in ByteSkips, SkipBytes(n) PROVE IInv'
  <2>1. n \in Nat
    BY ByteSkipsAssumption
  <2>2. CASE UNCHANGED store /\ result' = Thrown
    <3>1. StoreIsTail' /\ InBuffer'
      BY <1>5, <2>2, SameStore DEF SkipBytes, source
    <3>2. TypeOK'
      BY <1>types, <1>5, <2>2, Outcome DEF SkipBytes, TypeOK, store, source
    <3> QED
      BY <1>5, <3>1, <3>2 DEF SkipBytes, IInv, GatheredIsGap, SkipIsMarked
  <2>3. CASE EmptyStore /\ mSrcInx' = mSrcInx + n /\ UNCHANGED result
    <3>1. mSrcInx' \in Nat
      BY <1>types, <2>1, <2>3 DEF TypeOK
    <3>2. StoreIsTail' /\ InBuffer' /\ mNumStoredBits' \in 0..(ByteBits - 1) /\ mBitStore' \in Seq(Nat)
      BY <1>types, <2>3, <3>1, EmptyStoreIsTail
    <3>3. TypeOK'
      BY <1>types, <1>5, <2>3, <3>1, <3>2 DEF SkipBytes, TypeOK, source
    <3> QED
      BY <1>5, <3>2, <3>3 DEF SkipBytes, IInv, GatheredIsGap, SkipIsMarked
  <2> QED
    BY <1>5, <2>2, <2>3 DEF SkipBytes
<1> QED
  BY <1>1, <1>2, <1>3, <1>4, <1>5 DEF Calls

(* The other loop steps. *)
LEMMA LoopsIInv == IInv /\ Loops => IInv'
<1> SUFFICES ASSUME IInv, Loops PROVE IInv'
  OBVIOUS
<1>types. TypeOK /\ StoreIsTail /\ InBuffer /\ GatheredIsGap
  BY DEF IInv
<1>nil. <<>> \in Seq(Nat)
  OBVIOUS
<1>1. CASE TakeBits
  BY <1>1, TakeBitsIInv
<1>2. CASE Return
  <2>1. StoreIsTail' /\ InBuffer'
    BY <1>2, SameStore DEF Return, source
  <2>2. TypeOK'
    BY <1>types, <1>nil, <1>2, Outcome DEF Return, TypeOK, store, source
  <2> QED
    BY <1>2, <2>1, <2>2 DEF Return, IInv, GatheredIsGap, SkipIsMarked
<1>3. CASE OutOfBounds
  <2>1. StoreIsTail' /\ InBuffer'
    BY <1>3, SameStore DEF OutOfBounds, source
  <2>2. TypeOK'
    BY <1>types, <1>nil, <1>3, Outcome DEF OutOfBounds, TypeOK, store, source
  <2> QED
    BY <1>3, <2>1, <2>2 DEF OutOfBounds, IInv, GatheredIsGap, SkipIsMarked
<1>4. CASE SkipWord
  <2>1. mSrcInx' \in Nat
    BY <1>types, <1>4 DEF SkipWord, TypeOK
  <2>2. StoreIsTail' /\ InBuffer' /\ mNumStoredBits' \in 0..(ByteBits - 1) /\ mBitStore' \in Seq(Nat)
    BY <1>types, <1>4, <2>1, EmptyStoreIsTail DEF SkipWord
  <2>3. words' \in Nat /\ a_requestedBits' \in 0..WordBits /\ op' \in {"idle", "skipBits"}
    <3>1. CASE words' = words - 1 /\ UNCHANGED <<op, a_requestedBits, result>>
      BY <1>types, <1>4, <3>1 DEF SkipWord, TypeOK
    <3>2. CASE op' = "idle" /\ words' = 0 /\ a_requestedBits' = 0
      BY <3>2
    <3> QED
      BY <1>4, <3>1, <3>2 DEF SkipWord
  <2>6. SkipIsMarked'
    BY <1>4 DEF IInv, SkipWord, SkipIsMarked
  <2>4. result' \in [outcome : Outcomes, bits : Seq(Nat)]
    BY <1>types, <1>4, Outcome DEF SkipWord, TypeOK
  <2>5. TypeOK'
    BY <1>types, <1>4, <2>1, <2>2, <2>3, <2>4 DEF SkipWord, TypeOK, source
  <2> QED
    BY <2>2, <2>3, <2>5, <2>6 DEF IInv, GatheredIsGap
<1>5. CASE SkipRemainder
  <2>0. a_skipBits # 0
    BY <1>5 DEF IInv, SkipRemainder, SkipIsMarked
  <2>1. StoreIsTail' /\ InBuffer'
    BY <1>5, SameStore DEF SkipRemainder, source
  <2>2. TypeOK'
    BY <1>types, <1>nil, <1>5 DEF SkipRemainder, EnterGetBits, TypeOK, store, source
  <2> QED
    BY <1>5, <2>0, <2>1, <2>2 DEF SkipRemainder, EnterGetBits, IInv, GatheredIsGap, SkipIsMarked
<1> QED
  BY <1>1, <1>2, <1>3, <1>4, <1>5 DEF Loops

-----------------------------------------------------------------------------
(* For every buffer and every sequence of calls: the store is the unread    *)
(* tail of its byte, no byte outside the buffer is loaded, and a running    *)
(* getBits holds exactly the bits between its start and the cursor.         *)
THEOREM Invariance == Spec => []IInv
<1>1. Init => IInv
  BY InitIInv
<1>2. IInv /\ [Next]_vars => IInv'
  <2> SUFFICES ASSUME IInv, [Next]_vars PROVE IInv'
    OBVIOUS
  <2>1. CASE Calls
    BY <2>1, CallsIInv
  <2>2. CASE Loops
    BY <2>2, LoopsIInv
  <2>3. CASE UNCHANGED vars
    BY <2>3 DEF vars, store, source, locals, IInv, TypeOK, StoreIsTail,
                GatheredIsGap, InBuffer, SkipIsMarked, cursor
  <2> QED
    BY <2>1, <2>2, <2>3 DEF Next
<1> QED
  BY <1>1, <1>2, PTL DEF Spec

(* The members of the class and the locals of a call keep their types.      *)
THEOREM AlwaysTyped == Spec => []TypeOK
<1>1. IInv => TypeOK
  BY DEF IInv
<1> QED
  BY <1>1, Invariance, PTL

(* The store holds the unread tail of the byte before mSrcInx.              *)
THEOREM StoreIsAlwaysTail == Spec => []StoreIsTail
<1>1. IInv => StoreIsTail
  BY DEF IInv
<1> QED
  BY <1>1, Invariance, PTL

(* A running getBits holds the bits from where it began to the cursor.      *)
THEOREM GatheredIsAlwaysGap == Spec => []GatheredIsGap
<1>1. IInv => GatheredIsGap
  BY DEF IInv
<1> QED
  BY <1>1, Invariance, PTL

(* No byte outside the buffer is ever loaded.                               *)
THEOREM LoadsAreInBuffer == Spec => []InBuffer
<1>1. IInv => InBuffer
  BY DEF IInv
<1> QED
  BY <1>1, Invariance, PTL

(* getByteInx is the byte of the next bit, wherever in it the cursor is.    *)
THEOREM ByteInxIsAlwaysCursorByte == Spec => []ByteInxIsCursorByte
<1>1. ASSUME IInv PROVE ByteInxIsCursorByte
  <2>1. mNumStoredBits \in 0..7 /\ mSrcInx \in Nat
    BY <1>1 DEF IInv, TypeOK, ByteBits
  <2>2. CASE mNumStoredBits = 0
    BY <2>1, <2>2 DEF ByteInxIsCursorByte, getByteInx, cursor, ByteBits
  <2>3. CASE mNumStoredBits # 0
    BY <2>1, <2>3 DEF ByteInxIsCursorByte, getByteInx, cursor, ByteBits
  <2> QED
    BY <2>2, <2>3
<1> QED
  BY <1>1, Invariance, PTL

-----------------------------------------------------------------------------
(* Skips of more than 64 bits.  From a byte boundary the store is empty, so *)
(* a word moves the cursor by 64 bits and not by less; what is still to go  *)
(* is in words and a_requestedBits.                                         *)
Aligned == a_skipBits > 0 /\ start % ByteBits = 0 /\ start + a_skipBits < ByteBits * mSize

SkipInv ==
  Aligned =>
    /\ op = "skipBits" =>
         /\ mNumStoredBits = 0
         /\ cursor + WordBits * words + a_requestedBits = start + a_skipBits
    /\ op = "getBits" => cursor + a_requestedBits = start + a_skipBits
    /\ op = "idle" => result.outcome = "ok" /\ cursor = start + a_skipBits

LEMMA CallsKeepSkips ==
  ASSUME IInv, Calls
  PROVE  SkipInv'
<1>1. CASE a_skipBits' = 0
  BY <1>1 DEF SkipInv, Aligned
<1>2. ASSUME NEW n \in LongSkips, CallSkipBits(n) PROVE SkipInv'
  <2>1. n \in Nat /\ mNumStoredBits \in 0..7 /\ mSrcInx \in Nat
    BY LongSkipsAssumption DEF IInv, TypeOK
  <2>2. /\ op' = "skipBits" /\ a_skipBits' = n /\ words' = n \div 64
        /\ a_requestedBits' = n % 64 /\ start' = cursor
        /\ mNumStoredBits' = mNumStoredBits /\ cursor' = cursor
    BY <1>2 DEF CallSkipBits, Words, store, cursor
  <2>3. cursor % 8 = 0 => mNumStoredBits = 0
    BY <2>1 DEF cursor
  <2>4. 64 * (n \div 64) + (n % 64) = n
    BY <2>1
  <2>5. cursor + 64 * (n \div 64) + (n % 64) = cursor + n
    BY <2>1, <2>4 DEF cursor
  <2> QED
    BY <2>2, <2>3, <2>5 DEF SkipInv, Aligned
<1>3. a_skipBits' = 0 \/ \E n \in LongSkips : CallSkipBits(n)
  BY DEF Calls, ResetBits, CallGetBits, RefuseGetBits, SkipBytes
<1> QED
  BY <1>1, <1>2, <1>3

\* What an iteration takes, it takes off what is still to go.
LEMMA TakeBitsMoves ==
  ASSUME IInv, TakeBits
  PROVE  cursor' + a_requestedBits' = cursor + a_requestedBits
<1> DEFINE empty == mNumStoredBits = 0
           held  == IF empty THEN ByteBits ELSE mNumStoredBits
           inx   == IF empty THEN mSrcInx + 1 ELSE mSrcInx
           taken == Taken(held, a_requestedBits)
<1>1. mNumStoredBits \in 0..7 /\ mSrcInx \in Nat /\ a_requestedBits \in 0..64
  BY DEF IInv, TypeOK
<1>2. mSrcInx' = inx /\ a_requestedBits' = a_requestedBits - taken
      /\ mNumStoredBits' = held - taken
  BY DEF TakeBits
<1>3. taken \in Int /\ held \in Int
  BY <1>1 DEF Taken
<1>4. 8 * inx - held = 8 * mSrcInx - mNumStoredBits /\ inx \in Int
  BY <1>1
<1> HIDE DEF taken, held, inx
<1> QED
  BY <1>1, <1>2, <1>3, <1>4 DEF cursor

LEMMA LoopsKeepSkips ==
  ASSUME IInv, SkipInv, Loops
  PROVE  SkipInv'
<1> SUFFICES ASSUME Aligned
             PROVE  /\ op' = "skipBits" =>
                         /\ mNumStoredBits' = 0
                         /\ cursor' + WordBits * words' + a_requestedBits' = start + a_skipBits
                    /\ op' = "getBits" => cursor' + a_requestedBits' = start + a_skipBits
                    /\ op' = "idle" => result'.outcome = "ok" /\ cursor' = start + a_skipBits
  <2>1. UNCHANGED <<a_skipBits, start, mSize>>
    BY DEF Loops, TakeBits, Return, OutOfBounds, SkipWord, SkipRemainder, source
  <2> QED
    BY <2>1 DEF SkipInv, Aligned
<1>1. /\ mNumStoredBits \in 0..7 /\ mSrcInx \in Nat /\ mSize \in Nat /\ start \in Nat
      /\ a_requestedBits \in 0..64 /\ a_skipBits \in Nat /\ words \in Nat
  BY LongSkipsAssumption DEF IInv, TypeOK
<1>2. /\ op = "skipBits" => /\ mNumStoredBits = 0
                            /\ cursor + 64 * words + a_requestedBits = start + a_skipBits
      /\ op = "getBits" => cursor + a_requestedBits = start + a_skipBits
      /\ start + a_skipBits < 8 * mSize
  BY DEF SkipInv, Aligned
<1>3. CASE TakeBits
  BY <1>2, <1>3, TakeBitsMoves DEF TakeBits
<1>4. CASE Return
  BY <1>1, <1>2, <1>4 DEF Return, store, cursor, Done
<1>5. CASE OutOfBounds
  \* The buffer does not end before the skip does.
  <2>1. op = "getBits" /\ mNumStoredBits = 0 /\ mSrcInx >= mSize
    BY <1>5 DEF OutOfBounds, Exhausted
  <2>2. FALSE
    BY <1>1, <1>2, <2>1 DEF cursor
  <2> QED
    BY <2>2
<1>6. CASE SkipWord
  <2>1. op = "skipBits" /\ words > 0 /\ mNumStoredBits' = 0 /\ mSrcInx' = mSrcInx + 8
    BY <1>6 DEF SkipWord, EmptyStore
  <2>2. cursor' = cursor + 64 /\ cursor = 8 * mSrcInx
    BY <1>1, <1>2, <2>1 DEF cursor
  <2>3. 64 * words >= 64 /\ 64 * (words - 1) = 64 * words - 64
    BY <1>1, <2>1
  <2>4. mSrcInx' < mSize
    BY <1>1, <1>2, <2>1, <2>2, <2>3
  <2>5. words' = words - 1 /\ UNCHANGED <<op, a_requestedBits>>
    BY <1>1, <1>6, <2>1, <2>4 DEF SkipWord
  <2> QED
    BY <1>1, <1>2, <2>1, <2>2, <2>3, <2>5
<1>7. CASE SkipRemainder
  BY <1>1, <1>2, <1>7 DEF SkipRemainder, EnterGetBits, store, cursor
<1> QED
  BY <1>3, <1>4, <1>5, <1>6, <1>7 DEF Loops

(* Of more than 64 bits, for every buffer: a skip from a byte boundary to a *)
(* place inside the buffer succeeds and lands where it should.              *)
THEOREM AlignedSkipIsAlwaysExact == Spec => []AlignedSkipIsExact
<1>1. Init => SkipInv
  BY DEF Init, SkipInv, Aligned
<1>2. IInv /\ SkipInv /\ [Next]_vars => SkipInv'
  <2> SUFFICES ASSUME IInv, SkipInv, [Next]_vars PROVE SkipInv'
    OBVIOUS
  <2>1. CASE Calls
    BY <2>1, CallsKeepSkips
  <2>2. CASE Loops
    BY <2>2, LoopsKeepSkips
  <2>3. CASE UNCHANGED vars
    BY <2>3 DEF vars, store, source, locals, SkipInv, Aligned, cursor
  <2> QED
    BY <2>1, <2>2, <2>3 DEF Next
<1>3. SkipInv => AlignedSkipIsExact
  BY DEF SkipInv, Aligned, AlignedSkipIsExact, SkipDone
<1> QED
  BY <1>1, <1>2, <1>3, Invariance, PTL DEF Spec

-----------------------------------------------------------------------------
(* Refinement.  A step of a loop that is not its last is invisible to the   *)
(* caller; the last one is the Read or ReadPastEnd of BitReader.            *)
rpos == IF op = "idle" THEN cursor ELSE start

LEMMA ReaderVars ==
  /\ Reader!vars = <<rpos, 8 * mSize, mSrcBytes, result>>
  /\ Reader!vars' = <<rpos', 8 * mSize', mSrcBytes', result'>>
  /\ \A p, n : Reader!BitsFrom(p, n) = [i \in 1..n |-> p + i - 1]
  /\ Reader!Thrown = Thrown /\ Reader!None = None
  /\ \A s : Reader!Done(s) = Done(s)
BY DEF Reader!vars, rpos, Reader!BitsFrom, Reader!Thrown, Reader!None, Reader!Done,
       Thrown, None, Done

LEMMA CallsRefine ==
  ASSUME IInv, Calls, a_skipBits' = 0
  PROVE  [Reader!Next]_(Reader!vars)
<1>types. TypeOK /\ StoreIsTail /\ InBuffer /\ cursor \in Nat
  BY CursorType DEF IInv
<1>num. mNumStoredBits \in 0..7 /\ mSrcInx \in Nat /\ mSize \in Nat
  BY <1>types DEF TypeOK
<1>1. ASSUME NEW bytes \in Sizes, NEW inx \in 0..1, ResetBits(bytes, inx)
      PROVE  Reader!Next
  <2>1. Reader!Reset(bytes, inx)
    BY <1>1, SizesAssumption DEF ResetBits, EmptyStore, Reader!Reset, cursor, Reader!ByteBits,
                None, Reader!None
  <2> QED
    BY <2>1 DEF Reader!Next
<1>2. ASSUME NEW n \in Requests, CallGetBits(n) PROVE UNCHANGED Reader!vars
  BY <1>2, ReaderVars DEF CallGetBits, EnterGetBits, rpos, cursor, store, source
<1>3. ASSUME NEW n \in Requests, RefuseGetBits(n) PROVE Reader!Next
  <2>1. Reader!Refuse(n)
    BY <1>3 DEF RefuseGetBits, Reader!Refuse, Reader!WordBits, cursor, store, source,
                Thrown, Reader!Thrown
  <2> QED
    BY <2>1 DEF Reader!Next
<1>4. ASSUME NEW n \in ByteSkips, SkipBytes(n) PROVE Reader!Next
  <2> DEFINE byte == mSrcInx
  <2>0. n \in Nat /\ op = "idle" /\ op' = "idle" /\ UNCHANGED <<mSize, mSrcBytes>>
    BY <1>4, ByteSkipsAssumption DEF SkipBytes, source
  <2>1. /\ byte \in 0..cursor
        /\ cursor <= 8 * byte /\ 8 * byte < cursor + 8
    BY <1>types, <1>num DEF StoreIsTail, cursor
  <2>2. \/ /\ 8 * (byte + n) < 8 * mSize
           /\ cursor' = 8 * (byte + n)
           /\ UNCHANGED result
        \/ /\ 8 * (byte + n) >= 8 * mSize
           /\ result' = Thrown
           /\ UNCHANGED cursor
    <3>1. CASE UNCHANGED store /\ result' = Thrown /\ mSrcInx + n >= mSize
      BY <3>1, <2>0, <1>num DEF store, cursor
    <3>2. CASE EmptyStore /\ mSrcInx' = mSrcInx + n /\ UNCHANGED result /\ mSrcInx + n < mSize
      BY <3>2, <2>0, <1>num DEF EmptyStore, cursor
    <3> QED
      BY <1>4, <3>1, <3>2 DEF SkipBytes
  <2> HIDE DEF byte
  <2>3. Reader!SkipBytes(n)
    BY <2>0, <2>1, <2>2, ReaderVars DEF Reader!SkipBytes, Reader!ByteBits
  <2> QED
    BY <2>3 DEF Reader!Next
<1>5. ASSUME NEW n \in LongSkips, CallSkipBits(n) PROVE FALSE
  BY <1>5, LongSkipsAssumption DEF CallSkipBits
<1> QED
  BY <1>1, <1>2, <1>3, <1>4, <1>5 DEF Calls

LEMMA LoopsRefine ==
  ASSUME IInv, IInv', Loops, a_skipBits' = 0
  PROVE  [Reader!Next]_(Reader!vars)
<1>types. TypeOK /\ StoreIsTail /\ InBuffer /\ GatheredIsGap /\ cursor \in Nat
  BY CursorType DEF IInv
<1>num. /\ mNumStoredBits \in 0..7 /\ mSrcInx \in Nat /\ mSize \in Nat
        /\ a_requestedBits \in 0..64 /\ start \in Nat /\ ret \in Seq(Nat)
  BY <1>types DEF TypeOK
<1>noskip. a_skipBits = 0 /\ op # "skipBits"
  <2>1. a_skipBits' = a_skipBits
    BY DEF Loops, TakeBits, Return, OutOfBounds, SkipWord, SkipRemainder
  <2> QED
    BY <2>1 DEF IInv, SkipIsMarked
<1>gap. op = "getBits" =>
          /\ mSrcBytes /\ Len(ret) = cursor - start
          /\ \A i \in 1..Len(ret) : ret[i] = start + i - 1
          /\ ret # <<>> => cursor <= 8 * mSize
          /\ Len(ret) + a_requestedBits \in Requests
          /\ Len(ret) + a_requestedBits <= 64
  BY <1>types, <1>noskip DEF GatheredIsGap
<1>1. CASE TakeBits
  BY <1>1, ReaderVars DEF TakeBits, rpos, source
<1>2. CASE Return
  <2> DEFINE n == Len(ret)
  <2>0. /\ op = "getBits" /\ op' = "idle" /\ a_requestedBits = 0
        /\ cursor' = cursor /\ UNCHANGED <<mSize, mSrcBytes>> /\ result' = Done(ret)
    BY <1>2 DEF Return, store, source, cursor
  <2>1. /\ n \in Requests /\ n <= 64 /\ n \in Nat /\ mSrcBytes
        /\ cursor = start + n
        /\ n = 0 \/ start + n <= 8 * mSize
    BY <2>0, <1>gap, <1>num, <1>types
  <2>2. ret = [i \in 1..n |-> start + i - 1]
    BY <2>0, <1>gap, <1>num
  <2> HIDE DEF n
  <2>3. Reader!Read(n)
    BY <2>0, <2>1, <2>2, ReaderVars DEF Reader!Read, Reader!WordBits, rpos
  <2> QED
    BY <2>1, <2>3 DEF Reader!Next
<1>3. CASE OutOfBounds
  <2> DEFINE n == Len(ret) + a_requestedBits
  <2>0. /\ op = "getBits" /\ op' = "idle" /\ a_requestedBits > 0
        /\ mNumStoredBits = 0 /\ mSrcInx >= mSize
        /\ cursor' = cursor /\ UNCHANGED <<mSize, mSrcBytes>> /\ result' = Thrown
    BY <1>3 DEF OutOfBounds, Exhausted, store, source, cursor
  <2>1. n \in Requests /\ n <= 64 /\ n > 0 /\ mSrcBytes /\ start + n > 8 * mSize
    BY <2>0, <1>gap, <1>num, <1>types DEF cursor
  <2>2. cursor = IF start >= 8 * mSize THEN start ELSE 8 * mSize
    <3>1. CASE ret = <<>>
      BY <3>1, <2>0, <1>gap, <1>num DEF cursor
    <3>2. CASE ret # <<>>
      BY <3>2, <2>0, <1>gap, <1>num DEF cursor
    <3> QED
      BY <3>1, <3>2
  <2> HIDE DEF n
  <2>3. Reader!ReadPastEnd(n)
    BY <2>0, <2>1, <2>2, ReaderVars
       DEF Reader!ReadPastEnd, Reader!WordBits, Reader!ByteBits, Reader!Larger, rpos
  <2> QED
    BY <2>1, <2>3 DEF Reader!Next
<1> QED
  BY <1>1, <1>2, <1>3, <1>noskip DEF Loops, SkipWord, SkipRemainder

(* GetBits is a BitReader for every set of requests and every buffer; only a *)
(* skip of more than 64 bits goes where BitReader cannot follow.             *)
THEOREM Refinement == Spec => ImplementsBitReader
<1>1. Init => Reader!Init
  BY DEF Init, Reader!Init, cursor, Reader!None, None, Reader!ByteBits
<1>2. IInv /\ IInv' /\ [Next]_vars => [a_skipBits' = 0 => Reader!Next]_(Reader!vars)
  <2> SUFFICES ASSUME IInv, IInv', [Next]_vars, a_skipBits' = 0
               PROVE  [Reader!Next]_(Reader!vars)
    OBVIOUS
  <2>1. CASE Calls
    BY <2>1, CallsRefine
  <2>2. CASE Loops
    BY <2>2, LoopsRefine
  <2>3. CASE UNCHANGED vars
    BY <2>3, ReaderVars DEF vars, store, source, locals, rpos, cursor
  <2> QED
    BY <2>1, <2>2, <2>3 DEF Next
<1> QED
  BY <1>1, <1>2, Invariance, PTL DEF Spec, ImplementsBitReader
=============================================================================
