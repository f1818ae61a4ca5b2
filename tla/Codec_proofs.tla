---------------------------- MODULE Codec_proofs ----------------------------
(***************************************************************************)
(* Proofs about Codec: however the stream is cut into reads, the loop is   *)
(* given the messages in order, none is held back, and a truncated stream  *)
(* is reported.                                                            *)
(*                                                                         *)
(* The first parts say what decode computes from a part of a well-formed   *)
(* frame (DecodeFromHeader, DecodeFromBody) and that encode writes such    *)
(* frames; the last one is about the state: Inv lays the frames out in the *)
(* stream and places the buffer in it.                                     *)
(***************************************************************************)
EXTENDS Codec, TLAPS

---------------------------------------------------------------------------
(* Sequences of bytes *)

(* The elements of a concatenation. *)
LEMMA ConcatElements ==
    ASSUME NEW a \in Seq(Symbols), NEW b \in Seq(Symbols)
    PROVE  /\ a \o b \in Seq(Symbols)
           /\ Len(a \o b) = Len(a) + Len(b)
           /\ \A j \in 1..Len(a) : (a \o b)[j] = a[j]
           /\ \A j \in 1..Len(b) : (a \o b)[Len(a) + j] = b[j]
  OBVIOUS

(* Sequences with the same elements are the same. *)
LEMMA SameElements ==
    ASSUME NEW a \in Seq(Symbols), NEW b \in Seq(Symbols), Len(a) = Len(b),
           \A j \in 1..Len(a) : a[j] = b[j]
    PROVE  a = b
  OBVIOUS

(* The four bytes of the header terminator, one by one. *)
LEMMA TerminatorInSeq == /\ HeaderTerminator \in Seq(Symbols)
                         /\ Len(HeaderTerminator) = 4
                         /\ HeaderTerminator[1] = CR /\ HeaderTerminator[2] = LF
                         /\ HeaderTerminator[3] = CR /\ HeaderTerminator[4] = LF
  BY DEF HeaderTerminator, Symbols, Symbol, CR, LF, Kinds

(* A terminator at position k of a sequence, byte by byte. *)
Mark(q, k) == q[k] = CR /\ q[k + 1] = LF /\ q[k + 2] = CR /\ q[k + 3] = LF

(* The slice that find_subsequence compares is the terminator if and only  *)
(* if its four bytes are.                                                  *)
LEMMA TerminatorAt ==
    ASSUME NEW q \in Seq(Symbols), NEW k \in 1..(Len(q) - 3)
    PROVE  SubSeq(q, k, k + 3) = HeaderTerminator <=> Mark(q, k)
<1> DEFINE s == SubSeq(q, k, k + 3)
<1>1. /\ s \in Seq(Symbols) /\ Len(s) = 4
      /\ s[1] = q[k] /\ s[2] = q[k + 1] /\ s[3] = q[k + 2] /\ s[4] = q[k + 3]
  <2>1. k - 1 \in Nat /\ k + 3 \in Nat /\ k - 1 <= k + 3 /\ k + 3 <= Len(q) /\ (k - 1) + 1 = k
    OBVIOUS
  <2>2. /\ s \in Seq(Symbols) /\ Len(s) = (k + 3) - (k - 1)
        /\ \A j \in 1..((k + 3) - (k - 1)) : s[j] = q[(k - 1) + j]
    BY <2>1
  <2>. QED  BY <2>2
<1>2. ASSUME Mark(q, k) PROVE s = HeaderTerminator
  <2>1. \A j \in 1..4 : s[j] = HeaderTerminator[j]
    BY <1>1, <1>2, TerminatorInSeq DEF Mark
  <2>. QED  BY <2>1, <1>1, TerminatorInSeq, SameElements
<1>. QED  BY <1>1, <1>2, TerminatorInSeq DEF Mark

(* find_subsequence finds nothing where there is no terminator. *)
LEMMA NotFound ==
    ASSUME NEW q \in Seq(Symbols), \A k \in 1..(Len(q) - 3) : ~Mark(q, k)
    PROVE  FindSubsequence(q) = 0
  BY TerminatorAt DEF FindSubsequence

(* find_subsequence returns the first of several terminators. *)
LEMMA Found ==
    ASSUME NEW q \in Seq(Symbols), NEW h \in Nat, h + 4 <= Len(q),
           Mark(q, h + 1), \A k \in 1..h : ~Mark(q, k)
    PROVE  FindSubsequence(q) = h + 1
<1> DEFINE found == {k \in 1..(Len(q) - 3) : SubSeq(q, k, k + 3) = HeaderTerminator}
<1>1. h + 1 \in found /\ \A k \in found : h + 1 <= k
  <2>1. h + 1 \in 1..(Len(q) - 3)
    OBVIOUS
  <2>2. h + 1 \in found
    BY <2>1, TerminatorAt
  <2>3. ASSUME NEW k \in found PROVE h + 1 <= k
    <3>1. k \in 1..(Len(q) - 3) /\ Mark(q, k)
      BY TerminatorAt
    <3>. QED  BY <3>1
  <2>. QED  BY <2>2, <2>3
<1>2. \A k \in found : (\A j \in found : k <= j) => k = h + 1
  BY <1>1
<1> HIDE DEF found
<1>3. (CHOOSE k \in found : \A j \in found : k <= j) = h + 1
  BY <1>1, <1>2
<1>. QED  BY <1>1, <1>3 DEF FindSubsequence, found

(* A frame on the wire: header h, terminator, body b; and a header whose   *)
(* first terminator is the one that ends it.                               *)
Joined(h, b) == h \o HeaderTerminator \o b
Single(h) ==
    \A k \in 1..Len(h) : SubSeq(h \o HeaderTerminator, k, k + 3) # HeaderTerminator

(* The bytes of a header with its terminator. *)
LEMMA HeadElements ==
    ASSUME NEW h \in Seq(Symbols)
    PROVE  /\ h \o HeaderTerminator \in Seq(Symbols)
           /\ Len(h \o HeaderTerminator) = Len(h) + 4
           /\ \A j \in 1..Len(h) : (h \o HeaderTerminator)[j] = h[j]
           /\ Mark(h \o HeaderTerminator, Len(h) + 1)
<1> DEFINE a == h \o HeaderTerminator
<1>1. HeaderTerminator \in Seq(Symbols)
  BY TerminatorInSeq
<1>2. /\ a \in Seq(Symbols) /\ Len(a) = Len(h) + Len(HeaderTerminator)
      /\ \A j \in 1..Len(h) : a[j] = h[j]
      /\ \A j \in 1..Len(HeaderTerminator) : a[Len(h) + j] = HeaderTerminator[j]
  BY <1>1, ConcatElements
<1> HIDE DEF a
<1>3. Len(h) \in Nat
  OBVIOUS
<1>4. Mark(a, Len(h) + 1)
  BY <1>2, <1>3, TerminatorInSeq DEF Mark
<1>5. Len(a) = Len(h) + 4
  BY <1>2, <1>3, TerminatorInSeq
<1>. QED  BY <1>2, <1>4, <1>5 DEF a

(* The bytes of a frame. *)
LEMMA JoinedElements ==
    ASSUME NEW h \in Seq(Symbols), NEW b \in Seq(Symbols)
    PROVE  /\ Joined(h, b) \in Seq(Symbols)
           /\ Len(Joined(h, b)) = Len(h) + 4 + Len(b)
           /\ \A j \in 1..(Len(h) + 4) : Joined(h, b)[j] = (h \o HeaderTerminator)[j]
           /\ \A j \in 1..Len(b) : Joined(h, b)[Len(h) + 4 + j] = b[j]
<1> DEFINE a == h \o HeaderTerminator
<1>1. a \in Seq(Symbols)
  BY HeadElements
<1>2. Len(a) = Len(h) + 4
  BY HeadElements
<1> HIDE DEF a
<1>3. /\ a \o b \in Seq(Symbols) /\ Len(a \o b) = Len(a) + Len(b)
      /\ \A j \in 1..Len(a) : (a \o b)[j] = a[j]
      /\ \A j \in 1..Len(b) : (a \o b)[Len(a) + j] = b[j]
  BY <1>1, ConcatElements
<1>4. Joined(h, b) = a \o b
  BY DEF Joined, a
<1>. QED  BY <1>2, <1>3, <1>4 DEF a

(* No terminator begins inside the header, not even one that ends outside  *)
(* it.                                                                     *)
LEMMA NoEarlierMark ==
    ASSUME NEW h \in Seq(Symbols), Single(h)
    PROVE  \A k \in 1..Len(h) : ~Mark(h \o HeaderTerminator, k)
<1> DEFINE a == h \o HeaderTerminator
<1>1. a \in Seq(Symbols) /\ Len(a) = Len(h) + 4 /\ Len(h) \in Nat
  BY HeadElements
<1>2. \A k \in 1..Len(h) : SubSeq(a, k, k + 3) # HeaderTerminator
  BY DEF Single
<1> HIDE DEF a
<1>3. ASSUME NEW k \in 1..Len(h) PROVE ~Mark(a, k)
  <2>1. k \in 1..(Len(a) - 3)
    BY <1>1
  <2>. QED  BY <1>1, <1>2, <2>1, TerminatorAt
<1>. QED  BY <1>3 DEF a

(* As far as both go, q is what w starts with. *)
Starts(q, w) == \A j \in 1..Len(q) : j <= Len(w) => q[j] = w[j]

(* While the header is incomplete, find_subsequence finds nothing: a part  *)
(* of a header holds no terminator, whatever part it is.                   *)
LEMMA HeaderNotYet ==
    ASSUME NEW h \in Seq(Symbols), NEW b \in Seq(Symbols), Single(h),
           NEW q \in Seq(Symbols), Starts(q, Joined(h, b)), Len(q) < Len(h) + 4
    PROVE  FindSubsequence(q) = 0
<1> DEFINE a == h \o HeaderTerminator
<1>1. Len(h) \in Nat /\ Len(q) \in Nat /\ Len(b) \in Nat
  OBVIOUS
<1>2. \A k \in 1..Len(h) : ~Mark(a, k)
  BY NoEarlierMark
<1>3. \A j \in 1..Len(q) : q[j] = a[j]
  <2> DEFINE w == Joined(h, b)
  <2>1. Len(w) = Len(h) + 4 + Len(b) /\ \A j \in 1..(Len(h) + 4) : w[j] = a[j]
    BY JoinedElements
  <2>2. \A j \in 1..Len(q) : j <= Len(w) => q[j] = w[j]
    BY DEF Starts
  <2> HIDE DEF w, a
  <2>. QED  BY <1>1, <2>1, <2>2
<1> HIDE DEF a
<1>4. ASSUME NEW k \in 1..(Len(q) - 3) PROVE ~Mark(q, k)
  <2>1. k \in 1..Len(h) /\ \A i \in {k, k + 1, k + 2, k + 3} : i \in 1..Len(q)
    BY <1>1
  <2>2. q[k] = a[k] /\ q[k + 1] = a[k + 1] /\ q[k + 2] = a[k + 2] /\ q[k + 3] = a[k + 3]
    BY <1>3, <2>1
  <2>. QED  BY <1>2, <2>1, <2>2 DEF Mark
<1>. QED  BY <1>4, NotFound

(* Once the header is complete, find_subsequence finds its end, whatever   *)
(* follows: a body that looks like a terminator does not disturb it.       *)
LEMMA HeaderThere ==
    ASSUME NEW h \in Seq(Symbols), NEW b \in Seq(Symbols), Single(h),
           NEW q \in Seq(Symbols), Starts(q, Joined(h, b)), Len(q) >= Len(h) + 4
    PROVE  /\ FindSubsequence(q) = Len(h) + 1
           /\ SubSeq(q, 1, Len(h)) = h
<1> DEFINE a == h \o HeaderTerminator
<1>1. Len(h) \in Nat /\ Len(q) \in Nat /\ Len(b) \in Nat
  OBVIOUS
<1>2. \A k \in 1..Len(h) : ~Mark(a, k)
  BY NoEarlierMark
<1>3. \A j \in 1..(Len(h) + 4) : q[j] = a[j]
  <2> DEFINE w == Joined(h, b)
  <2>1. Len(w) = Len(h) + 4 + Len(b) /\ \A j \in 1..(Len(h) + 4) : w[j] = a[j]
    BY JoinedElements
  <2>2. \A j \in 1..Len(q) : j <= Len(w) => q[j] = w[j]
    BY DEF Starts
  <2> HIDE DEF w, a
  <2>. QED  BY <1>1, <2>1, <2>2
<1>4. Mark(a, Len(h) + 1) /\ \A j \in 1..Len(h) : a[j] = h[j]
  BY HeadElements
<1> HIDE DEF a
<1>5. ASSUME NEW k \in 1..Len(h) PROVE ~Mark(q, k)
  <2>1. \A i \in {k, k + 1, k + 2, k + 3} : i \in 1..(Len(h) + 4)
    BY <1>1
  <2>2. q[k] = a[k] /\ q[k + 1] = a[k + 1] /\ q[k + 2] = a[k + 2] /\ q[k + 3] = a[k + 3]
    BY <1>3, <2>1
  <2>. QED  BY <1>2, <2>2 DEF Mark
<1>6. Mark(q, Len(h) + 1)
  BY <1>1, <1>3, <1>4 DEF Mark
<1>7. FindSubsequence(q) = Len(h) + 1
  BY <1>1, <1>5, <1>6, Found
<1>8. SubSeq(q, 1, Len(h)) = h
  <2> DEFINE s == SubSeq(q, 1, Len(h))
  <2>1. s \in Seq(Symbols) /\ Len(s) = Len(h) /\ \A j \in 1..Len(h) : s[j] = q[j]
    BY <1>1
  <2>2. \A j \in 1..Len(h) : s[j] = h[j]
    BY <1>1, <1>3, <1>4, <2>1
  <2> HIDE DEF s
  <2>3. s = h
    BY <2>1, <2>2, SameElements
  <2>. QED  BY <2>3 DEF s
<1>. QED  BY <1>7, <1>8

---------------------------------------------------------------------------
(* decode of a part of a header asks for more and keeps its buffer. *)
LEMMA DecodeWaits ==
    ASSUME NEW h \in Seq(Symbols), NEW b \in Seq(Symbols), Single(h),
           NEW q \in Seq(Symbols), Starts(q, Joined(h, b)), Len(q) < Len(h) + 4
    PROVE  Decode(NoLength, q) = Result(Nothing, NoLength, q)
<1>1. FindSubsequence(q) = 0
  BY HeaderNotYet
<1>. QED  BY <1>1 DEF Decode

(* So does decode of an empty buffer. *)
LEMMA DecodeEmpty ==
    ASSUME NEW q \in Seq(Symbols), Len(q) = 0
    PROVE  Decode(NoLength, q) = Result(Nothing, NoLength, q)
<1>1. \A k \in 1..(Len(q) - 3) : ~Mark(q, k)
  OBVIOUS
<1>2. FindSubsequence(q) = 0
  BY <1>1, NotFound
<1>. QED  BY <1>2 DEF Decode

(* decode of a complete header goes on to the body, or rejects the header. *)
LEMMA DecodeHeads ==
    ASSUME NEW h \in Seq(Symbols), NEW b \in Seq(Symbols), Single(h),
           NEW q \in Seq(Symbols), Starts(q, Joined(h, b)), Len(q) >= Len(h) + 4
    PROVE  Decode(NoLength, q) =
               IF ParseContentLength(h) = Invalid THEN Result(Error, NoLength, q)
               ELSE DecodeBody(ParseContentLength(h), SubSeq(q, Len(h) + 5, Len(q)))
<1>1. FindSubsequence(q) = Len(h) + 1 /\ SubSeq(q, 1, Len(h)) = h /\ Len(h) \in Nat
  BY HeaderThere
<1>2. (Len(h) + 1) - 1 = Len(h) /\ (Len(h) + 1) + 4 = Len(h) + 5 /\ Len(h) + 1 # 0
  BY <1>1
<1>3. HeaderLength(q) = ParseContentLength(h)
  BY <1>1, <1>2 DEF HeaderLength
<1>4. AfterHeader(q) = SubSeq(q, Len(h) + 5, Len(q))
  BY <1>1, <1>2 DEF AfterHeader
<1>5. Decode(NoLength, q) = DecodeHeader(q)
  BY <1>1, <1>2 DEF Decode
<1>. QED  BY <1>3, <1>4, <1>5 DEF DecodeHeader

(* A complete body is taken out of the buffer, no byte more and none less. *)
LEMMA BodyThere ==
    ASSUME NEW b \in Seq(Symbols), NEW q \in Seq(Symbols), Starts(q, b), Len(q) >= Len(b)
    PROVE  DecodeBody(Len(b), q)
               = Result(FromSlice(b), NoLength, SubSeq(q, Len(b) + 1, Len(q)))
<1> DEFINE s == SubSeq(q, 1, Len(b))
<1>0. Len(b) \in Nat /\ Len(q) \in Nat
  OBVIOUS
<1>1. s \in Seq(Symbols) /\ Len(s) = Len(b) /\ \A j \in 1..Len(b) : s[j] = q[j]
  BY <1>0
<1>2. \A j \in 1..Len(b) : s[j] = b[j]
  BY <1>0, <1>1 DEF Starts
<1> HIDE DEF s
<1>3. s = b
  BY <1>1, <1>2, SameElements
<1>4. ~(Len(q) < Len(b))
  BY <1>0
<1>5. SubSeq(q, 1, Len(b)) = b
  BY <1>3 DEF s
<1>. QED  BY <1>4, <1>5, Zenon DEF DecodeBody

(* r is q without its first d elements. *)
Dropped(q, r, d) ==
    /\ d \in 0..Len(q)
    /\ r \in Seq(Symbols) /\ Len(r) = Len(q) - d
    /\ \A j \in 1..Len(r) : r[j] = q[d + j]

(* The length n is that of the body b, from header h, and item is what b   *)
(* says. Past: the bytes of the frame that decode has taken out of the     *)
(* buffer when content_length is n. Needed: the bytes of the frame after   *)
(* which decode can go on.                                                 *)
Known(n, h, b, item) ==
    n = Len(b) /\ ParseContentLength(h) = Len(b) /\ FromSlice(b) = item
Past(n, h) == IF n = NoLength THEN 0 ELSE Len(h) + 4
Needed(n, h, b) == IF n = NoLength THEN Len(h) + 4 ELSE Len(h) + 4 + Len(b)

(* The three things decode may do with content_length n and buffer q that  *)
(* are a part of the frame (h, b, item): ask for more bytes, which it      *)
(* really needs; reject the header of a malformed frame; hand on the item  *)
(* and drop exactly the rest of the frame.                                 *)
Asks(n, q, h, b, item, r) ==
    /\ r.item = Nothing
    /\ r.length = NoLength \/ Known(r.length, h, b, item)
    /\ Dropped(q, r.buf, Past(r.length, h) - Past(n, h))
    /\ Past(r.length, h) + Len(r.buf) < Needed(r.length, h, b)
Rejects(item, r) ==
    /\ r.item = Error /\ item = Error
    /\ r.length = NoLength /\ r.buf \in Seq(Symbols)
Yields(n, q, h, b, item, r) ==
    /\ r.item = item
    /\ r.length = NoLength
    /\ Dropped(q, r.buf, (Len(h) + 4 + Len(b)) - Past(n, h))

(* split_to and advance drop what they should. *)
LEMMA SubSeqDrops ==
    ASSUME NEW q \in Seq(Symbols), NEW d \in Nat, d <= Len(q)
    PROVE  Dropped(q, SubSeq(q, d + 1, Len(q)), d)
  BY DEF Dropped

(* Dropping twice is dropping the sum. *)
LEMMA DropsCompose ==
    ASSUME NEW q \in Seq(Symbols), NEW r, NEW s, NEW d \in Nat, NEW e \in Nat,
           Dropped(q, r, d), Dropped(r, s, e)
    PROVE  Dropped(q, s, d + e)
<1>1. /\ d \in 0..Len(q) /\ Len(r) = Len(q) - d /\ e \in 0..Len(r) /\ Len(s) = Len(r) - e
      /\ s \in Seq(Symbols) /\ Len(q) \in Nat
      /\ \A j \in 1..Len(r) : r[j] = q[d + j]
      /\ \A j \in 1..Len(s) : s[j] = r[e + j]
  BY DEF Dropped
<1>2. ASSUME NEW j \in 1..Len(s) PROVE s[j] = q[(d + e) + j]
  <2>1. e + j \in 1..Len(r) /\ d + (e + j) = (d + e) + j
    BY <1>1
  <2>. QED  BY <1>1, <2>1
<1>3. d + e \in 0..Len(q) /\ Len(s) = Len(q) - (d + e)
  BY <1>1
<1>. QED  BY <1>1, <1>2, <1>3 DEF Dropped

(* DecodeBody either keeps a part of the body or reads all of it. *)
LEMMA DecodeBodyCases ==
    ASSUME NEW b \in Seq(Symbols), NEW item,
           NEW q \in Seq(Symbols), Starts(q, b), FromSlice(b) = item
    PROVE  LET r == DecodeBody(Len(b), q) IN
           \/ r.item = Nothing /\ r.length = Len(b) /\ r.buf = q /\ Len(q) < Len(b)
           \/ r.item = item /\ r.length = NoLength /\ Dropped(q, r.buf, Len(b))
<1>0. Len(b) \in Nat /\ Len(q) \in Nat
  OBVIOUS
<1>1. CASE Len(q) < Len(b)
  BY <1>1 DEF DecodeBody, Result
<1>2. CASE Len(q) >= Len(b)
  <2>1. Dropped(q, SubSeq(q, Len(b) + 1, Len(q)), Len(b))
    BY <1>0, <1>2, SubSeqDrops
  <2>2. DecodeBody(Len(b), q) = Result(item, NoLength, SubSeq(q, Len(b) + 1, Len(q)))
    BY <1>2, BodyThere
  <2> DEFINE rest == SubSeq(q, Len(b) + 1, Len(q))
  <2> HIDE DEF rest
  <2>3. DecodeBody(Len(b), q) = Result(item, NoLength, rest) /\ Dropped(q, rest, Len(b))
    BY <2>1, <2>2 DEF rest
  <2>. QED  BY <2>3 DEF Result
<1>. QED  BY <1>0, <1>1, <1>2

(* What decode does when it has no length yet. *)
LEMMA DecodeFromHeader ==
    ASSUME NEW h \in Seq(Symbols), NEW b \in Seq(Symbols), NEW item, Single(h),
           \/ ParseContentLength(h) = Invalid /\ item = Error
           \/ ParseContentLength(h) = Len(b) /\ FromSlice(b) = item,
           NEW q \in Seq(Symbols), Starts(q, Joined(h, b))
    PROVE  LET r == Decode(NoLength, q) IN
           \/ Asks(NoLength, q, h, b, item, r)
           \/ Rejects(item, r)
           \/ Yields(NoLength, q, h, b, item, r)
<1> DEFINE r == Decode(NoLength, q)
<1>0. Len(b) \in Nat /\ Len(q) \in Nat /\ Len(h) \in Nat
  OBVIOUS
<1>1. CASE Len(q) < Len(h) + 4
  <2>1. r = Result(Nothing, NoLength, q)
    BY <1>1, DecodeWaits
  <2> HIDE DEF r
  <2>2. r.item = Nothing /\ r.length = NoLength /\ r.buf = q
    BY <2>1 DEF Result
  <2>3. Dropped(q, q, 0)
    BY DEF Dropped
  <2>4. Past(NoLength, h) = 0 /\ Needed(NoLength, h, b) = Len(h) + 4
    BY DEF Past, Needed
  <2>5. Asks(NoLength, q, h, b, item, r)
    BY <1>0, <1>1, <2>2, <2>3, <2>4 DEF Asks
  <2>. QED  BY <2>5 DEF r
<1>2. CASE Len(q) >= Len(h) + 4 /\ ParseContentLength(h) = Invalid
  <2>1. r = Result(Error, NoLength, q)
    BY <1>2, DecodeHeads
  <2>2. item = Error
    BY <1>0, <1>2 DEF Invalid
  <2> HIDE DEF r
  <2>3. Rejects(item, r)
    BY <2>1, <2>2 DEF Result, Rejects
  <2>. QED  BY <2>3 DEF r
<1>3. CASE Len(q) >= Len(h) + 4 /\ ParseContentLength(h) # Invalid
  <2> DEFINE p == SubSeq(q, Len(h) + 5, Len(q))
  <2>1. r = DecodeBody(Len(b), p) /\ ParseContentLength(h) = Len(b) /\ FromSlice(b) = item
    BY <1>3, DecodeHeads
  <2>2. Dropped(q, p, Len(h) + 4)
    <3>1. Len(h) + 4 \in Nat /\ Len(h) + 4 <= Len(q) /\ (Len(h) + 4) + 1 = Len(h) + 5
      BY <1>0, <1>3
    <3>. QED  BY <3>1, SubSeqDrops
  <2> HIDE DEF p
  <2>3. p \in Seq(Symbols) /\ Len(p) = Len(q) - (Len(h) + 4)
        /\ \A j \in 1..Len(p) : p[j] = q[Len(h) + 4 + j]
    BY <2>2 DEF Dropped
  <2>4. Starts(p, b)
    <3> DEFINE w == Joined(h, b)
    <3>1. Len(w) = Len(h) + 4 + Len(b) /\ \A j \in 1..Len(b) : w[Len(h) + 4 + j] = b[j]
      BY JoinedElements
    <3>2. \A j \in 1..Len(q) : j <= Len(w) => q[j] = w[j]
      BY DEF Starts
    <3> HIDE DEF w
    <3>3. ASSUME NEW j \in 1..Len(p), j <= Len(b) PROVE p[j] = b[j]
      <4>1. Len(h) + 4 + j \in 1..Len(q) /\ Len(h) + 4 + j <= Len(w) /\ j \in 1..Len(b)
        BY <1>0, <2>3, <3>1, <3>3
      <4>. QED  BY <2>3, <3>1, <3>2, <4>1
    <3>. QED  BY <3>3 DEF Starts
  <2>5. \/ r.item = Nothing /\ r.length = Len(b) /\ r.buf = p /\ Len(p) < Len(b)
        \/ r.item = item /\ r.length = NoLength /\ Dropped(p, r.buf, Len(b))
    BY <2>1, <2>3, <2>4, DecodeBodyCases
  <2> HIDE DEF r
  <2>6. Past(NoLength, h) = 0 /\ Past(Len(b), h) = Len(h) + 4
        /\ Needed(Len(b), h, b) = Len(h) + 4 + Len(b)
    BY <1>0 DEF Past, Needed, NoLength
  <2>7. CASE r.item = Nothing /\ r.length = Len(b) /\ r.buf = p /\ Len(p) < Len(b)
    <3>1. Known(r.length, h, b, item)
      BY <2>1, <2>7 DEF Known
    <3>2. (Len(h) + 4) - 0 = Len(h) + 4 /\ (Len(h) + 4) + Len(p) < Len(h) + 4 + Len(b)
      <4>1. Len(p) \in Nat
        BY <2>3
      <4>. QED  BY <1>0, <2>7, <4>1
    <3>3. Asks(NoLength, q, h, b, item, r)
      BY <2>2, <2>6, <2>7, <3>1, <3>2 DEF Asks
    <3>. QED  BY <3>3 DEF r
  <2>8. CASE r.item = item /\ r.length = NoLength /\ Dropped(p, r.buf, Len(b))
    <3>1. Dropped(q, r.buf, (Len(h) + 4) + Len(b))
      <4>1. Len(h) + 4 \in Nat /\ Len(b) \in Nat
        BY <1>0
      <4>2. Dropped(p, r.buf, Len(b))
        BY <2>8
      <4>. QED  BY <2>2, <4>1, <4>2, DropsCompose
    <3>2. (Len(h) + 4 + Len(b)) - 0 = (Len(h) + 4) + Len(b)
      BY <1>0
    <3>3. Yields(NoLength, q, h, b, item, r)
      BY <2>6, <2>8, <3>1, <3>2 DEF Yields
    <3>. QED  BY <3>3 DEF r
  <2>. QED  BY <2>5, <2>7, <2>8
<1>. QED  BY <1>0, <1>1, <1>2, <1>3

(* What decode does when it has the length from an earlier call. *)
LEMMA DecodeFromBody ==
    ASSUME NEW h \in Seq(Symbols), NEW b \in Seq(Symbols), NEW item,
           NEW n, Known(n, h, b, item),
           NEW q \in Seq(Symbols), Starts(q, b)
    PROVE  LET r == Decode(n, q) IN
           Asks(n, q, h, b, item, r) \/ Yields(n, q, h, b, item, r)
<1> DEFINE r == Decode(n, q)
<1>0. Len(b) \in Nat /\ Len(q) \in Nat /\ Len(h) \in Nat /\ n = Len(b) /\ FromSlice(b) = item
  BY DEF Known
<1>1. n # NoLength
  BY <1>0 DEF NoLength
<1>2. r = DecodeBody(Len(b), q)
  BY <1>0, <1>1 DEF Decode
<1>3. \/ r.item = Nothing /\ r.length = Len(b) /\ r.buf = q /\ Len(q) < Len(b)
      \/ r.item = item /\ r.length = NoLength /\ Dropped(q, r.buf, Len(b))
  BY <1>0, <1>2, DecodeBodyCases
<1> HIDE DEF r
<1>4. Past(n, h) = Len(h) + 4 /\ Needed(n, h, b) = Len(h) + 4 + Len(b)
  BY <1>1 DEF Past, Needed
<1>5. CASE r.item = Nothing /\ r.length = Len(b) /\ r.buf = q /\ Len(q) < Len(b)
  <2>1. Dropped(q, q, 0) /\ (Len(h) + 4) - (Len(h) + 4) = 0
        /\ (Len(h) + 4) + Len(q) < Len(h) + 4 + Len(b)
    BY <1>0, <1>5 DEF Dropped
  <2>2. Asks(n, q, h, b, item, r)
    BY <1>0, <1>4, <1>5, <2>1 DEF Asks
  <2>. QED  BY <2>2 DEF r
<1>6. CASE r.item = item /\ r.length = NoLength /\ Dropped(q, r.buf, Len(b))
  <2>1. (Len(h) + 4 + Len(b)) - (Len(h) + 4) = Len(b)
    BY <1>0
  <2>2. Yields(n, q, h, b, item, r)
    BY <1>4, <1>6, <2>1 DEF Yields
  <2>. QED  BY <2>2 DEF r
<1>. QED  BY <1>3, <1>5, <1>6

---------------------------------------------------------------------------
(* The bytes of the JSON of a message. *)
LEMMA BodyElements ==
    ASSUME NEW m \in Messages
    PROVE  /\ Body(m) \in Seq(Symbols) /\ Len(Body(m)) \in Nat \ {0}
           /\ Body(m)[1] = Json(m)
           /\ \A j \in 1..Len(Body(m)) : Body(m)[j] \in {Json(m), Continuation}
<1>1. Json(m) \in Symbols /\ Continuation \in Symbols
  BY CodecAssumption DEF Json, Continuation, Symbol, Symbols, Kinds
<1>. QED  BY <1>1 DEF Body

(* The first byte of a message's JSON is that of no other message. *)
LEMMA JsonInjective ==
    ASSUME NEW m, NEW n
    PROVE  /\ Json(m) = Json(n) => m = n
           /\ Json(m) # Continuation
  BY DEF Json, Continuation, Symbol

(* from_slice of the JSON of a message is that message and no other. *)
LEMMA ReadsBack ==
    ASSUME NEW m \in Messages
    PROVE  FromSlice(Body(m)) = m
<1> DEFINE b == Body(m)
<1>1. b \in Seq(Symbols) /\ Len(b) \in Nat \ {0} /\ b[1] = Json(m)
      /\ \A j \in 1..Len(b) : b[j] \in {Json(m), Continuation}
  BY BodyElements
<1>2. Parses(b, m)
  <2>1. 0 \in 0..(Len(b) - Len(b)) /\ 0 + 1 = 1 /\ 0 + Len(b) = Len(b)
    BY <1>1
  <2>2. SubSeq(b, 1, Len(b)) = b /\ DOMAIN b \ (1..Len(b)) = {}
    BY <1>1
  <2>. QED  BY <2>1, <2>2 DEF Parses
<1>3. ASSUME NEW n \in Messages, Parses(b, n) PROVE n = m
  <2> DEFINE c == Body(n)
  <2>1. c \in Seq(Symbols) /\ Len(c) \in Nat \ {0} /\ c[1] = Json(n)
    BY BodyElements
  <2>2. PICK k \in 0..(Len(b) - Len(c)) : SubSeq(b, k + 1, k + Len(c)) = c
    BY <1>3 DEF Parses
  <2> HIDE DEF c, b
  <2>3. k + 1 \in 1..Len(b) /\ SubSeq(b, k + 1, k + Len(c))[1] = b[k + 1]
    BY <1>1, <2>1
  <2>4. Json(n) \in {Json(m), Continuation}
    BY <1>1, <2>1, <2>2, <2>3
  <2>. QED  BY <2>4, JsonInjective
<1> DEFINE meant == {n \in Messages : Parses(b, n)}
<1>4. meant = {m}
  BY <1>2, <1>3
<1> HIDE DEF meant, b
<1>5. (CHOOSE n \in meant : TRUE) = m
  BY <1>4
<1>6. FromSlice(b) = m
  BY <1>4, <1>5 DEF FromSlice, meant
<1>. QED  BY <1>6 DEF b

(* The header that encode writes holds no terminator and is read as the    *)
(* length it was written with.                                             *)
LEMMA OneLine ==
    ASSUME NEW k \in Nat
    PROVE  /\ <<LengthLine(k)>> \in Seq(Symbols)
           /\ Single(<<LengthLine(k)>>)
           /\ ParseContentLength(<<LengthLine(k)>>) = k
<1> DEFINE h == <<LengthLine(k)>>
<1>1. LengthLine(k) \in Symbols /\ LengthLine(k).t = "length" /\ LengthLine(k).n = k
      /\ LengthLine(k) # CR /\ LengthLine(k) # NotUtf8
  BY DEF LengthLine, Symbol, Symbols, Kinds, CR, NotUtf8
<1>2. h \in Seq(Symbols) /\ Len(h) = 1 /\ h[1] = LengthLine(k) /\ DOMAIN h = {1}
  BY <1>1
<1> HIDE DEF h
<1>3. Single(h)
  <2> DEFINE a == h \o HeaderTerminator
  <2>1. a \in Seq(Symbols) /\ Len(a) = Len(h) + 4 /\ \A j \in 1..Len(h) : a[j] = h[j]
    BY <1>2, HeadElements
  <2>2. a[1] # CR /\ 1 \in 1..(Len(a) - 3)
    BY <1>1, <1>2, <2>1
  <2> HIDE DEF a
  <2>3. SubSeq(a, 1, 1 + 3) # HeaderTerminator
    BY <2>1, <2>2, TerminatorAt DEF Mark
  <2>4. \A j \in 1..Len(h) : j = 1
    BY <1>2
  <2>. QED  BY <2>3, <2>4 DEF Single, a
<1>4. ParseContentLength(h) = k
  <2> DEFINE starts == {i \in DOMAIN h : i = 1 \/ (i > 2 /\ SubSeq(h, i - 2, i - 1) = <<CR, LF>>)}
             lines == {i \in starts : h[i].t \in {"length", "badlength"}}
  <2>1. lines = {1}
    BY <1>1, <1>2
  <2>2. ~Contains(h, NotUtf8)
    BY <1>1, <1>2 DEF Contains
  <2> HIDE DEF lines
  <2>3. (CHOOSE i \in lines : \A j \in lines : i <= j) = 1
    BY <2>1
  <2>4. ParseContentLength(h)
            = IF \/ Contains(h, NotUtf8)
                 \/ lines = {}
                 \/ h[CHOOSE i \in lines : \A j \in lines : i <= j].t = "badlength"
                THEN Invalid ELSE h[CHOOSE i \in lines : \A j \in lines : i <= j].n
    BY DEF ParseContentLength, lines
  <2>. QED  BY <1>1, <1>2, <2>1, <2>2, <2>3, <2>4
<1>. QED  BY <1>2, <1>3, <1>4 DEF h

(* encode writes well-formed frames: Content-Length is the number of bytes *)
(* of the body, also for a message with wide characters.                   *)
LEMMA EncodeWellFormed ==
    ASSUME NEW m \in Messages
    PROVE  WellFormed(Encode(m))
<1> DEFINE h == <<LengthLine(Len(Body(m)))>>
           b == Body(m)
<1>1. b \in Seq(Symbols) /\ Len(b) \in Nat /\ FromSlice(b) = m
  BY BodyElements, ReadsBack
<1>2. h \in Seq(Symbols) /\ Single(h) /\ ParseContentLength(h) = Len(b)
  BY <1>1, OneLine
<1>3. Encode(m) = [head |-> h, body |-> b, item |-> m]
  BY DEF Encode, Frame
<1> HIDE DEF h, b
<1>4. Encode(m) \in Frames /\ Encode(m).head = h /\ Encode(m).body = b /\ Encode(m).item = m
  BY <1>1, <1>2, <1>3 DEF Frames
<1>. QED  BY <1>1, <1>2, <1>4, Zenon DEF WellFormed, Single

---------------------------------------------------------------------------
(* q is the part of the stream that starts after its first from bytes. *)
Slice(q, from) == \A j \in 1..Len(q) : q[j] = stream[from + j]

(* Frame i lies in the stream where ends says, and the frames fill the     *)
(* stream.                                                                 *)
FrameAt(i) ==
    /\ WellFormed(sent[i])
    /\ End(i) = End(i - 1) + Len(Wire(sent[i]))
    /\ \A j \in 1..Len(Wire(sent[i])) : stream[End(i - 1) + j] = Wire(sent[i])[j]

Layout ==
    /\ Len(ends) = Len(sent)
    /\ Len(stream) = End(Len(sent))
    /\ \A i \in 0..Len(sent) : End(i) \in 0..Len(stream)
    /\ \A i \in 1..Len(sent) : FrameAt(i)

(* What was read and what is on the wire are parts of the stream; only a   *)
(* peer that closed can have lost the end of it.                           *)
InFlight ==
    /\ got + Len(wire) <= Len(stream)
    /\ ~closed => got + Len(wire) = Len(stream)
    /\ Slice(wire, got)
    /\ eof => closed

(* The frame that decode is at, and the place in the stream up to which it *)
(* has taken bytes out of the buffer if content_length is n.               *)
Current == sent[Len(items) + 1]

At(n) == End(Len(items)) + Past(n, Current.head)

(* While the loop runs it has been given the items of the first frames,    *)
(* and the buffer starts inside the next one: at its start when            *)
(* content_length is None, and otherwise at the start of its body.         *)
Reading ==
    reader = "open" =>
        /\ Len(items) <= Len(sent)
        /\ length # NoLength =>
              /\ Len(items) < Len(sent)
              /\ Known(length, Current.head, Current.body, Current.item)
        /\ got = At(length) + Len(buf)
        /\ Slice(buf, At(length))

(* Once decode has asked for more, the buffer ends before the place it     *)
(* needs to get to.                                                        *)
Starved ==
    reader = "open" /\ ~readable /\ Len(items) < Len(sent) =>
        got < End(Len(items)) + Needed(length, Current.head, Current.body)

(* The loop ends only after the peer has closed. *)
Stopped == reader = "ended" => closed /\ TruncationReported

(* The inductive invariant. *)
Inv ==
    /\ TypeOK /\ Layout /\ InFlight /\ Reading /\ Starved
    /\ InOrder /\ Stopped

(* What a well-formed frame gives the lemmas above. *)
LEMMA FrameFacts ==
    ASSUME NEW f, WellFormed(f)
    PROVE  /\ f \in Frames
           /\ f.head \in Seq(Symbols) /\ f.body \in Seq(Symbols)
           /\ f.item \in Messages \cup {Error}
           /\ Wire(f) = Joined(f.head, f.body) /\ Wire(f) \in Seq(Symbols)
           /\ Single(f.head)
           /\ \/ ParseContentLength(f.head) = Invalid /\ f.item = Error
              \/ ParseContentLength(f.head) = Len(f.body) /\ FromSlice(f.body) = f.item
<1>1. f \in Frames /\ Single(f.head)
  BY Zenon DEF WellFormed, Single
<1>2. \/ ParseContentLength(f.head) = Invalid /\ f.item = Error
      \/ ParseContentLength(f.head) = Len(f.body) /\ FromSlice(f.body) = f.item
  BY Zenon DEF WellFormed
<1>3. f.head \in Seq(Symbols) /\ f.body \in Seq(Symbols) /\ f.item \in Messages \cup {Error}
  BY <1>1 DEF Frames
<1>4. Wire(f) = Joined(f.head, f.body)
  BY Zenon DEF Wire, Joined
<1>5. Wire(f) \in Seq(Symbols)
  BY <1>3, <1>4, JoinedElements
<1>. QED  BY <1>1, <1>2, <1>3, <1>4, <1>5

(* The invariant holds initially. *)
LEMMA InitInv == Init => Inv
<1> SUFFICES ASSUME Init PROVE Inv
  OBVIOUS
<1> USE DEF Init
<1>1. TypeOK
  <2>1. \A S : <<>> \in Seq(S)
    OBVIOUS
  <2>2. closed \in BOOLEAN /\ readable \in BOOLEAN /\ eof \in BOOLEAN /\ got \in Nat
    OBVIOUS
  <2>. QED  BY <2>1, <2>2, Zenon DEF TypeOK
<1>2. Layout
  BY DEF Layout, End
<1>3. InFlight
  BY DEF InFlight, Slice
<1>4. Reading
  BY DEF Reading, At, Past, End, Slice
<1>5. Starved /\ InOrder /\ Stopped
  BY DEF Starved, InOrder, Stopped
<1>. QED  BY <1>1, <1>2, <1>3, <1>4, <1>5 DEF Inv

(* Closing may lose the end of the stream; nothing else changes. *)
LEMMA CloseInv ==
    ASSUME Inv, NEW k \in 0..Len(wire), Close(k)
    PROVE  Inv'
<1> DEFINE w == SubSeq(wire, 1, k)
<1>0. /\ closed' = TRUE /\ ~closed /\ wire' = w
      /\ UNCHANGED <<sent, stream, ends, buf, length, readable, eof, reader, items, got>>
  BY DEF Close
<1>t. TypeOK
  BY DEF Inv
<1>1. w \in Seq(Symbols) /\ Len(w) = k /\ \A j \in 1..k : w[j] = wire[j]
  BY <1>t DEF TypeOK
<1> HIDE DEF w
<1>2. TypeOK'
  BY <1>0, <1>1, <1>t DEF TypeOK
<1>3. Layout'
  BY <1>0 DEF Inv, Layout, FrameAt, End
<1>4. InFlight'
  <2>1. got \in Nat /\ Len(wire) \in Nat /\ Len(stream) \in Nat
    BY <1>t DEF TypeOK
  <2>2. got + Len(wire) <= Len(stream) /\ Slice(wire, got)
    BY DEF Inv, InFlight
  <2>3. Slice(wire, got)'
    BY <1>0, <1>1, <2>1, <2>2 DEF Slice
  <2>. QED  BY <1>0, <1>1, <2>1, <2>2, <2>3 DEF InFlight
<1>5. Reading' /\ Starved'
  BY <1>0 DEF Inv, Reading, Starved, At, End, Slice, Current
<1>6. InOrder'
  BY <1>0 DEF Inv, InOrder
<1>7. Stopped'
  BY <1>0 DEF Inv, Stopped
<1>. QED  BY <1>2, <1>3, <1>4, <1>5, <1>6, <1>7 DEF Inv

(* End of the stream: only the flags of Framed change. *)
LEMMA PollEofInv == Inv /\ PollEof => Inv'
<1> SUFFICES ASSUME Inv, PollEof PROVE Inv'
  OBVIOUS
<1>0. /\ closed /\ reader = "open" /\ eof' = TRUE /\ readable' = TRUE
      /\ UNCHANGED <<sent, wire, closed, stream, ends, buf, length, reader, items, got>>
  BY DEF PollEof, peerVars
<1>1. TypeOK'
  BY <1>0 DEF Inv, TypeOK
<1>2. Layout'
  BY <1>0 DEF Inv, Layout, FrameAt, End
<1>3. InFlight'
  BY <1>0 DEF Inv, InFlight, Slice
<1>4. Reading' /\ Starved'
  BY <1>0 DEF Inv, Reading, Starved, At, End, Slice, Current
<1>5. InOrder' /\ Stopped'
  BY <1>0 DEF Inv, InOrder, Stopped
<1>. QED  BY <1>1, <1>2, <1>3, <1>4, <1>5 DEF Inv

(* The places where frames end are numbers. *)
LEMMA EndsAreNumbers ==
    ASSUME TypeOK, Layout
    PROVE  \A i \in 0..Len(sent) : End(i) \in Nat
  BY DEF TypeOK, Layout

(* Bytes move from the wire to the end of the buffer: both stay slices of  *)
(* the stream, wherever it is cut.                                         *)
LEMMA PollReadInv ==
    ASSUME Inv, NEW k \in 1..Len(wire), PollRead(k)
    PROVE  Inv'
<1> DEFINE w == SubSeq(wire, 1, k)
           v == SubSeq(wire, k + 1, Len(wire))
           p == buf \o w
<1>0. /\ reader = "open" /\ buf' = p /\ wire' = v /\ got' = got + k /\ readable' = TRUE
      /\ UNCHANGED <<sent, closed, stream, ends, length, eof, reader, items>>
  BY DEF PollRead
<1>t. /\ TypeOK /\ wire \in Seq(Symbols) /\ buf \in Seq(Symbols) /\ got \in Nat
      /\ Len(wire) \in Nat /\ Len(buf) \in Nat /\ Len(stream) \in Nat
  BY DEF Inv, TypeOK
<1>1. w \in Seq(Symbols) /\ Len(w) = k /\ \A j \in 1..k : w[j] = wire[j]
  BY <1>t
<1>2. v \in Seq(Symbols) /\ Len(v) = Len(wire) - k /\ \A j \in 1..(Len(wire) - k) : v[j] = wire[k + j]
  BY <1>t
<1> HIDE DEF w, v
<1>3. /\ p \in Seq(Symbols) /\ Len(p) = Len(buf) + Len(w)
      /\ \A j \in 1..Len(buf) : p[j] = buf[j]
      /\ \A j \in 1..Len(w) : p[Len(buf) + j] = w[j]
  <2>1. w \in Seq(Symbols)
    BY <1>1
  <2>. QED  BY <1>t, <2>1, ConcatElements
<1> HIDE DEF p
<1>4. TypeOK'
  BY <1>0, <1>t, <1>2, <1>3 DEF TypeOK
<1>5. Layout'
  BY <1>0 DEF Inv, Layout, FrameAt, End
<1>6. InFlight'
  <2>1. got' + Len(wire') = got + Len(wire)
    BY <1>0, <1>t, <1>2
  <2>2. Slice(wire, got)
    BY DEF Inv, InFlight
  <2>3. ASSUME NEW j \in 1..Len(v) PROVE v[j] = stream[(got + k) + j]
    <3>1. k + j \in 1..Len(wire) /\ got + (k + j) = (got + k) + j /\ j \in 1..(Len(wire) - k)
      BY <1>t, <1>2
    <3>. QED  BY <1>2, <2>2, <3>1 DEF Slice
  <2>4. Slice(wire, got)'
    BY <1>0, <2>3 DEF Slice
  <2>. QED  BY <1>0, <2>1, <2>4 DEF Inv, InFlight
<1>7. Reading'
  <2>1. /\ Len(items) <= Len(sent)
        /\ length # NoLength =>
              /\ Len(items) < Len(sent)
              /\ Known(length, Current.head, Current.body, Current.item)
        /\ got = At(length) + Len(buf)
        /\ Slice(buf, At(length))
    BY <1>0 DEF Inv, Reading
  <2>2. At(length)' = At(length) /\ Current' = Current
    BY <1>0 DEF At, End, Current
  <2>3. At(length) \in Int
    <3>1. Len(items) \in 0..Len(sent) /\ End(Len(items)) \in Nat
      BY <1>t, <2>1, EndsAreNumbers DEF Inv, TypeOK
    <3>2. CASE length = NoLength
      BY <3>1, <3>2 DEF At, Past
    <3>3. CASE length # NoLength
      <4>1. WellFormed(Current)
        BY <2>1, <3>3, <1>t DEF Inv, Layout, FrameAt, Current, TypeOK
      <4>2. Len(Current.head) \in Nat
        BY <4>1, FrameFacts
      <4>. QED  BY <3>1, <4>2 DEF At, Past
    <3>. QED  BY <3>2, <3>3
  <2>4. ASSUME NEW j \in 1..Len(p) PROVE p[j] = stream[At(length) + j]
    <3>1. CASE j \in 1..Len(buf)
      BY <1>3, <2>1, <3>1 DEF Slice
    <3>2. CASE j \notin 1..Len(buf)
      <4>1. PICK i \in 1..k : j = Len(buf) + i
        <5>1. j - Len(buf) \in 1..k /\ j = Len(buf) + (j - Len(buf))
          BY <1>t, <1>1, <1>3, <3>2
        <5>. QED  BY <5>1
      <4>2. p[j] = wire[i] /\ i \in 1..Len(wire)
        BY <1>t, <1>1, <1>3, <4>1
      <4>3. wire[i] = stream[got + i]
        BY <4>2 DEF Inv, InFlight, Slice
      <4>4. got + i = At(length) + j
        BY <1>t, <2>1, <2>3, <4>1
      <4>. QED  BY <4>2, <4>3, <4>4
    <3>. QED  BY <3>1, <3>2
  <2>5. Slice(buf, At(length))'
    BY <1>0, <2>2, <2>4 DEF Slice
  <2>6. got' = At(length) + Len(p)
    BY <1>0, <1>1, <1>3, <1>t, <2>1, <2>3
  <2>. QED  BY <1>0, <2>1, <2>2, <2>5, <2>6 DEF Reading
<1>8. Starved' /\ InOrder' /\ Stopped'
  BY <1>0 DEF Inv, Starved, InOrder, Stopped
<1>. QED  BY <1>4, <1>5, <1>6, <1>7, <1>8 DEF Inv

(* Another frame is laid after the others; what has been read and what is  *)
(* known of the current frame stay as they are.                            *)
LEMMA SendInv ==
    ASSUME Inv, NEW f, WellFormed(f), Send(f)
    PROVE  Inv'
<1> DEFINE w == Wire(f)
<1>0. /\ ~closed /\ sent' = Append(sent, f) /\ wire' = wire \o w /\ stream' = stream \o w
      /\ ends' = Append(ends, Len(stream'))
      /\ UNCHANGED <<closed, buf, length, readable, eof, reader, items, got>>
  BY DEF Send
<1>w. w \in Seq(Symbols) /\ f \in Frames /\ f.head \in Seq(Symbols) /\ f.body \in Seq(Symbols)
  BY FrameFacts
<1>t. /\ TypeOK /\ Layout /\ InFlight /\ Reading /\ Starved /\ InOrder /\ Stopped
      /\ sent \in Seq(Frames) /\ wire \in Seq(Symbols) /\ stream \in Seq(Symbols)
      /\ ends \in Seq(Nat) /\ buf \in Seq(Symbols) /\ got \in Nat
  BY DEF Inv, TypeOK
<1>c. PICK n \in Nat, z \in Nat : n = Len(sent) /\ z = Len(stream)
  BY <1>t
<1>n. n = Len(sent) /\ z = Len(stream) /\ n \in Nat /\ z \in Nat /\ Len(w) \in Nat /\ Len(wire) \in Nat /\ Len(buf) \in Nat
      /\ Len(ends) = n /\ Len(items) \in Nat /\ Len(f.head) \in Nat /\ Len(f.body) \in Nat
      /\ got \in Nat
  BY <1>c, <1>t, <1>w DEF Layout, TypeOK
<1> HIDE DEF w
<1>1. /\ sent' \in Seq(Frames) /\ Len(sent') = n + 1 /\ sent'[n + 1] = f
      /\ \A i \in 1..n : sent'[i] = sent[i]
  BY <1>0, <1>w, <1>t, <1>c
<1>2. /\ stream' \in Seq(Symbols) /\ Len(stream') = z + Len(w)
      /\ \A j \in 1..z : stream'[j] = stream[j]
      /\ \A j \in 1..Len(w) : stream'[z + j] = w[j]
  BY <1>0, <1>w, <1>t, <1>c, ConcatElements
<1>3. /\ wire' \in Seq(Symbols) /\ Len(wire') = Len(wire) + Len(w)
      /\ \A j \in 1..Len(wire) : wire'[j] = wire[j]
      /\ \A j \in 1..Len(w) : wire'[Len(wire) + j] = w[j]
  BY <1>0, <1>w, <1>t, <1>c, ConcatElements
<1>4. /\ ends' \in Seq(Nat) /\ Len(ends') = n + 1 /\ ends'[n + 1] = z + Len(w)
      /\ \A i \in 1..n : ends'[i] = ends[i]
  <2>1. Len(stream') \in Nat /\ Len(stream') = z + Len(w)
    BY <1>2, <1>n
  <2>. QED  BY <1>0, <1>t, <1>n, <2>1
<1>5. \A i \in 0..n : End(i)' = End(i) /\ End(i) \in 0..z
  <2>1. \A i \in 0..n : End(i) \in 0..z
    BY <1>c, <1>t DEF Layout
  <2>2. \A i \in 0..n : i # 0 => i \in 1..n
    BY <1>n
  <2>. QED  BY <1>4, <2>1, <2>2 DEF End
<1>6. End(n + 1)' = z + Len(w) /\ End(n) = z
  <2>1. End(n + 1)' = z + Len(w)
    BY <1>4, <1>n DEF End
  <2>. QED  BY <2>1, <1>c, <1>t DEF Layout
<1>7. TypeOK'
  BY <1>0, <1>1, <1>2, <1>3, <1>4, <1>t DEF TypeOK
<1>8. Layout'
  <2>1. Len(ends') = Len(sent') /\ Len(stream') = End(Len(sent))'
    BY <1>1, <1>2, <1>4, <1>n DEF End
  <2>2. \A i \in 0..Len(sent') : End(i)' \in 0..Len(stream')
    <3>1. \A i \in 0..Len(sent') : i \in 0..n \/ i = n + 1
      BY <1>1, <1>n
    <3>2. \A x \in 0..z : x \in 0..Len(stream')
      BY <1>2, <1>n
    <3>3. z + Len(w) \in 0..Len(stream')
      BY <1>2, <1>n
    <3>. QED  BY <1>5, <1>6, <3>1, <3>2, <3>3
  <2>3. ASSUME NEW i \in 1..Len(sent') PROVE FrameAt(i)'
    <3>1. CASE i \in 1..n
      <4>1. FrameAt(i) /\ sent'[i] = sent[i] /\ i - 1 \in 0..n /\ i \in 0..n
        BY <1>1, <1>n, <1>t, <3>1 DEF Layout
      <4>2. WellFormed(sent[i]) /\ End(i) = End(i - 1) + Len(Wire(sent[i]))
            /\ End(i)' = End(i) /\ End(i - 1)' = End(i - 1)
            /\ End(i) \in 0..z /\ End(i - 1) \in 0..z
        BY <1>5, <4>1 DEF FrameAt
      <4>3. Len(Wire(sent[i])) \in Nat
        BY <4>2, FrameFacts
      <4>4. \A j \in 1..Len(Wire(sent[i])) : End(i - 1) + j \in 1..z
        BY <4>2, <4>3, <1>n
      <4>5. \A j \in 1..Len(Wire(sent[i])) : stream'[End(i - 1) + j] = Wire(sent[i])[j]
        BY <1>2, <4>1, <4>4 DEF FrameAt
      <4>. QED  BY <4>1, <4>2, <4>5 DEF FrameAt
    <3>2. CASE i = n + 1
      <4>1. sent'[i] = f /\ End(i)' = z + Len(w) /\ i - 1 = n /\ End(i - 1)' = z
        BY <1>1, <1>5, <1>6, <1>n, <3>2
      <4>2. \A j \in 1..Len(Wire(f)) : stream'[z + j] = Wire(f)[j]
        BY <1>2 DEF w
      <4>. QED  BY <4>1, <4>2 DEF FrameAt, w
    <3>. QED  BY <1>1, <1>n, <3>1, <3>2
  <2>. QED  BY <2>1, <2>2, <2>3 DEF Layout
<1>9. InFlight'
  <2>1. got + Len(wire) = z
    BY <1>0, <1>c, <1>t DEF InFlight
  <2>2. got' + Len(wire') = Len(stream')
    <3>1. got' = got /\ Len(wire') = Len(wire) + Len(w) /\ Len(stream') = z + Len(w)
      BY <1>0, <1>2, <1>3
    <3>2. ASSUME NEW g \in Nat, NEW v \in Nat, NEW x \in Nat, g + v = z
          PROVE  g + (v + x) = z + x
      BY <3>2
    <3>. QED  BY <1>n, <2>1, <3>1, <3>2
  <2>3. ASSUME NEW j \in 1..Len(wire') PROVE wire'[j] = stream'[got + j]
    <3>1. CASE j \in 1..Len(wire)
      <4>1. wire[j] = stream[got + j]
        BY <1>t, <3>1 DEF InFlight, Slice
      <4>2. got + j \in 1..z
        BY <1>n, <1>t, <2>1, <3>1
      <4>. QED  BY <1>2, <1>3, <3>1, <4>1, <4>2
    <3>2. CASE j \notin 1..Len(wire)
      <4>1. PICK i \in 1..Len(w) : j = Len(wire) + i
        <5>1. j - Len(wire) \in 1..Len(w) /\ j = Len(wire) + (j - Len(wire))
          BY <1>n, <1>3, <3>2
        <5>. QED  BY <5>1
      <4>2. got + j = z + i
        <5>1. ASSUME NEW g \in Nat, NEW v \in Nat, g + v = z
              PROVE  g + (v + i) = z + i
          BY <5>1
        <5>. QED  BY <1>n, <2>1, <4>1, <5>1
      <4>. QED  BY <1>2, <1>3, <4>1, <4>2
    <3>. QED  BY <3>1, <3>2
  <2>4. Slice(wire, got)'
    BY <1>0, <2>3 DEF Slice
  <2>5. Len(stream') \in Nat /\ (eof => closed)
    BY <1>2, <1>n, <1>t DEF InFlight
  <2>. QED  BY <1>0, <2>2, <2>4, <2>5 DEF InFlight
<1>10. ASSUME reader = "open"
       PROVE  /\ Len(items) <= n
              /\ Len(items) < n => Current' = Current
              /\ Len(items) = n => Current' = f /\ length = NoLength
              /\ End(Len(items))' = End(Len(items)) /\ End(Len(items)) \in 0..z
  <2>1. Len(items) <= n /\ (length # NoLength => Len(items) < n)
    BY <1>c, <1>t, <1>10 DEF Reading
  <2>2. Len(items) < n => Len(items) + 1 \in 1..n
    BY <1>n
  <2>3. Len(items) < n => Current' = Current
    BY <1>0, <1>1, <2>2 DEF Current
  <2>4. Len(items) = n => Current' = f
    BY <1>0, <1>1 DEF Current
  <2>5. Len(items) \in 0..n
    BY <1>n, <2>1
  <2>6. End(Len(items))' = End(Len(items))
    <3>1. End(Len(items))' = IF Len(items) = 0 THEN 0 ELSE ends'[Len(items)]
      BY <1>0 DEF End
    <3>2. Len(items) # 0 => Len(items) \in 1..n
      BY <2>5, <1>n
    <3>. QED  BY <1>4, <3>1, <3>2 DEF End
  <2>. QED  BY <1>5, <1>n, <2>1, <2>3, <2>4, <2>5, <2>6
<1>11. Reading'
  <2> SUFFICES ASSUME reader = "open" PROVE Reading'
    BY <1>0 DEF Reading
  <2>1. /\ length # NoLength =>
              /\ Len(items) < n
              /\ Known(length, Current.head, Current.body, Current.item)
        /\ got = At(length) + Len(buf)
        /\ Slice(buf, At(length))
    BY <1>c, <1>t DEF Reading
  <2>2. At(length)' = At(length) /\ (length # NoLength => Current' = Current)
    <3>1. length = NoLength => At(length)' = At(length)
      BY <1>0, <1>10 DEF At, Past
    <3>2. length # NoLength => Current' = Current
      BY <1>10, <2>1
    <3>3. length # NoLength => At(length)' = At(length)
      BY <1>0, <1>10, <3>2 DEF At
    <3>. QED  BY <3>1, <3>2, <3>3
  <2>3. At(length) \in Nat
    <3>1. length = NoLength => At(length) \in Nat
      BY <1>10, <1>n DEF At, Past
    <3>2. ASSUME length # NoLength PROVE At(length) \in Nat
      <4>1. Len(items) + 1 \in 1..n
        BY <1>n, <2>1, <3>2
      <4>2. WellFormed(Current)
        BY <1>c, <1>t, <4>1 DEF Layout, FrameAt, Current
      <4>3. Len(Current.head) \in Nat
        BY <4>2, FrameFacts
      <4>. QED  BY <1>10, <1>n, <4>3 DEF At, Past
    <3>. QED  BY <3>1, <3>2
  <2>4. \A j \in 1..Len(buf) : At(length) + j \in 1..z
    <3>1. got <= z
      BY <1>n, <1>t DEF InFlight
    <3>. QED  BY <1>n, <1>t, <2>1, <2>3, <3>1
  <2>5. Slice(buf, At(length))'
    BY <1>0, <1>2, <2>1, <2>2, <2>4 DEF Slice
  <2>6. Len(items) <= n + 1 /\ (Len(items) < n => Len(items) < n + 1)
    BY <1>10, <1>n
  <2>. QED  BY <1>0, <1>1, <1>n, <2>1, <2>2, <2>5, <2>6 DEF Reading
<1>12. Starved'
  <2> SUFFICES ASSUME reader = "open", ~readable
               PROVE  got < End(Len(items))' + Needed(length, Current'.head, Current'.body)
    BY <1>0 DEF Starved
  <2>1. CASE Len(items) < n
    BY <1>c, <1>t, <1>10, <2>1 DEF Starved
  <2>2. CASE Len(items) = n
    <3>1. Current' = f /\ length = NoLength /\ End(Len(items))' = z
      BY <1>6, <1>10, <2>2
    <3>2. got <= z
      BY <1>n, <1>t DEF InFlight
    <3>3. got < z + (Len(f.head) + 4)
      BY <1>n, <1>t, <3>2
    <3>. QED  BY <3>1, <3>3 DEF Needed
  <2>. QED  BY <1>10, <1>n, <2>1, <2>2
<1>13. InOrder'
  <2>1. ASSUME NEW i \in DOMAIN items
        PROVE  (items[i] = Truncated /\ closed) \/ (i <= n + 1 /\ items[i] = sent'[i].item)
    <3>1. (items[i] = Truncated /\ closed) \/ (i <= n /\ items[i] = sent[i].item)
      BY <1>c, <1>t DEF InOrder
    <3>2. i \in Nat /\ i >= 1
      BY <1>t DEF TypeOK
    <3>. QED  BY <1>1, <1>n, <3>1, <3>2
  <2>. QED  BY <1>0, <1>1, <2>1 DEF InOrder
<1>14. Stopped'
  BY <1>0, <1>t DEF Stopped
<1>. QED  BY <1>7, <1>8, <1>9, <1>11, <1>12, <1>13, <1>14 DEF Inv

(* What decode may do with the buffer as it is: ask for more, fail at a    *)
(* malformed frame, or hand on the item of the current frame and stand at  *)
(* the start of the next.                                                  *)
Waits(r) ==
    /\ r.item = Nothing
    /\ r.length # NoLength =>
          /\ Len(items) < Len(sent)
          /\ Known(r.length, Current.head, Current.body, Current.item)
    /\ r.buf \in Seq(Symbols)
    /\ got = At(r.length) + Len(r.buf)
    /\ Slice(r.buf, At(r.length))
    /\ Len(items) < Len(sent) =>
          got < End(Len(items)) + Needed(r.length, Current.head, Current.body)
Fails(r) ==
    /\ r.item = Error /\ Len(items) < Len(sent) /\ Current.item = Error
    /\ r.length = NoLength /\ r.buf \in Seq(Symbols)
Gives(r) ==
    /\ r.item = Current.item /\ Len(items) < Len(sent)
    /\ r.length = NoLength /\ r.buf \in Seq(Symbols)
    /\ got = End(Len(items) + 1) + Len(r.buf)
    /\ Slice(r.buf, End(Len(items) + 1))

(* Dropping bytes from a slice of the stream leaves a slice that starts    *)
(* later.                                                                  *)
LEMMA SliceDropped ==
    ASSUME NEW q \in Seq(Symbols), NEW r, NEW d \in Nat, NEW from \in Nat,
           Dropped(q, r, d), Slice(q, from)
    PROVE  Slice(r, from + d)
<1>1. /\ d \in 0..Len(q) /\ r \in Seq(Symbols) /\ Len(r) = Len(q) - d /\ Len(q) \in Nat
      /\ \A j \in 1..Len(r) : r[j] = q[d + j]
  BY DEF Dropped
<1>2. ASSUME NEW j \in 1..Len(r) PROVE r[j] = stream[(from + d) + j]
  <2>1. d + j \in 1..Len(q) /\ from + (d + j) = (from + d) + j
    BY <1>1
  <2>. QED  BY <1>1, <2>1 DEF Slice
<1>. QED  BY <1>2 DEF Slice

(* decode does one of the three, in every state of the invariant. *)
LEMMA DecodeOutcome ==
    ASSUME Inv, reader = "open"
    PROVE  LET r == Decode(length, buf) IN Waits(r) \/ Fails(r) \/ Gives(r)
<1> DEFINE r == Decode(length, buf)
<1>t. /\ TypeOK /\ Layout /\ InFlight
      /\ buf \in Seq(Symbols) /\ got \in Nat /\ Len(buf) \in Nat /\ Len(items) \in Nat
      /\ Len(sent) \in Nat /\ Len(stream) \in Nat /\ Len(wire) \in Nat
  BY DEF Inv, TypeOK
<1>r. /\ Len(items) <= Len(sent)
      /\ length # NoLength =>
            /\ Len(items) < Len(sent)
            /\ Known(length, Current.head, Current.body, Current.item)
      /\ got = At(length) + Len(buf)
      /\ Slice(buf, At(length))
  BY DEF Inv, Reading
<1>e. End(Len(items)) \in 0..Len(stream) /\ End(Len(items)) \in Nat
  BY <1>t, <1>r DEF Layout
<1>1. CASE Len(items) = Len(sent)
  <2>1. length = NoLength
    BY <1>r, <1>1, <1>t
  <2>2. At(length) = End(Len(items)) /\ End(Len(items)) = Len(stream)
    BY <1>1, <1>e, <1>t, <2>1 DEF At, Past, Layout
  <2>3. got <= Len(stream)
    BY <1>t DEF InFlight
  <2>4. Len(buf) = 0
    BY <1>t, <1>r, <2>2, <2>3
  <2>5. r = Result(Nothing, NoLength, buf)
    BY <1>t, <2>1, <2>4, DecodeEmpty
  <2> HIDE DEF r
  <2>6. r.item = Nothing /\ r.length = NoLength /\ r.buf = buf
    BY <2>5 DEF Result
  <2>7. ~(Len(items) < Len(sent))
    BY <1>1, <1>t
  <2>8. Waits(r)
    BY <1>r, <1>t, <2>1, <2>6, <2>7 DEF Waits
  <2>. QED  BY <2>8 DEF r
<1>2. CASE Len(items) < Len(sent)
  <2>0. PICK f : f = Current
    OBVIOUS
  <2> DEFINE h == f.head
             b == f.body
             item == f.item
  <2>1. FrameAt(Len(items) + 1) /\ Len(items) + 1 \in 1..Len(sent) /\ (Len(items) + 1) - 1 = Len(items)
    BY <1>2, <1>t DEF Layout
  <2>2. /\ WellFormed(f)
        /\ End(Len(items) + 1) = End(Len(items)) + Len(Wire(f))
        /\ \A j \in 1..Len(Wire(f)) : stream[End(Len(items)) + j] = Wire(f)[j]
    BY <2>0, <2>1 DEF FrameAt, Current
  <2>3. /\ h \in Seq(Symbols) /\ b \in Seq(Symbols) /\ Single(h)
        /\ Wire(f) = Joined(h, b)
        /\ \/ ParseContentLength(h) = Invalid /\ item = Error
           \/ ParseContentLength(h) = Len(b) /\ FromSlice(b) = item
    BY <2>2, FrameFacts
  <2> HIDE DEF h, b, item
  <2>4. /\ Len(h) \in Nat /\ Len(b) \in Nat
        /\ Len(Wire(f)) = Len(h) + 4 + Len(b)
        /\ \A j \in 1..Len(b) : Wire(f)[Len(h) + 4 + j] = b[j]
    <3>1. h \in Seq(Symbols) /\ b \in Seq(Symbols)
      BY <2>3
    <3>2. /\ Len(Joined(h, b)) = Len(h) + 4 + Len(b)
          /\ \A j \in 1..Len(b) : Joined(h, b)[Len(h) + 4 + j] = b[j]
      BY <3>1, JoinedElements
    <3>. QED  BY <2>3, <3>1, <3>2
  <2>5. At(length) = End(Len(items)) + Past(length, h) /\ (length # NoLength => Known(length, h, b, item))
    BY <1>r, <2>0 DEF At, h, b, item
  <2>6. Past(length, h) \in Nat /\ Past(NoLength, h) = 0 /\ (length # NoLength => Past(length, h) = Len(h) + 4)
    BY <2>4 DEF Past
  <2>7. Asks(length, buf, h, b, item, r) \/ Rejects(item, r) \/ Yields(length, buf, h, b, item, r)
    <3>1. CASE length = NoLength
      <4>1. Starts(buf, Joined(h, b))
        <5>1. At(length) = End(Len(items))
          BY <1>e, <2>5, <2>6, <3>1
        <5>2. ASSUME NEW j \in 1..Len(buf), j <= Len(Wire(f)) PROVE buf[j] = Wire(f)[j]
          <6>1. j \in 1..Len(Wire(f))
            BY <2>4, <5>2
          <6>. QED  BY <1>r, <2>2, <5>1, <6>1 DEF Slice
        <5>. QED  BY <2>3, <5>2 DEF Starts
      <4>. QED  BY <1>t, <2>3, <3>1, <4>1, DecodeFromHeader
    <3>2. CASE length # NoLength
      <4>1. Starts(buf, b)
        <5>1. At(length) = End(Len(items)) + (Len(h) + 4)
          BY <2>5, <2>6, <3>2
        <5>2. ASSUME NEW j \in 1..Len(buf), j <= Len(b) PROVE buf[j] = b[j]
          <6>1. Len(h) + 4 + j \in 1..Len(Wire(f)) /\ j \in 1..Len(b)
                /\ At(length) + j = End(Len(items)) + (Len(h) + 4 + j)
            BY <1>e, <2>4, <5>1, <5>2
          <6>2. buf[j] = stream[End(Len(items)) + (Len(h) + 4 + j)]
            BY <1>r, <6>1 DEF Slice
          <6>. QED  BY <2>2, <2>4, <6>1, <6>2
        <5>. QED  BY <5>2 DEF Starts
      <4>2. Known(length, h, b, item)
        BY <2>5, <3>2
      <4>. QED  BY <1>t, <2>3, <4>1, <4>2, DecodeFromBody
    <3>. QED  BY <3>1, <3>2
  <2> HIDE DEF r
  <2>8. CASE Asks(length, buf, h, b, item, r)
    <3>1. /\ r.item = Nothing
          /\ r.length = NoLength \/ Known(r.length, h, b, item)
          /\ Dropped(buf, r.buf, Past(r.length, h) - Past(length, h))
          /\ Past(r.length, h) + Len(r.buf) < Needed(r.length, h, b)
      BY <2>8 DEF Asks
    <3>2. Past(r.length, h) \in Nat /\ Needed(r.length, h, b) \in Nat
      BY <2>4 DEF Past, Needed
    <3>3. PICK d \in Nat : d = Past(r.length, h) - Past(length, h) /\ Dropped(buf, r.buf, d)
      <4>1. Past(r.length, h) - Past(length, h) \in Nat
        BY <1>t, <3>1 DEF Dropped
      <4>. QED  BY <3>1, <4>1
    <3>4. r.buf \in Seq(Symbols) /\ Len(r.buf) = Len(buf) - d /\ Len(r.buf) \in Nat
      BY <1>t, <3>3 DEF Dropped
    <3>5. At(r.length) = End(Len(items)) + Past(r.length, h)
      BY <2>0 DEF At, h
    <3>6. At(r.length) = At(length) + d /\ At(length) \in Nat
      BY <1>e, <2>5, <2>6, <3>2, <3>3, <3>5
    <3>7. got = At(r.length) + Len(r.buf)
      BY <1>t, <1>r, <3>4, <3>6
    <3>8. Slice(r.buf, At(r.length))
      BY <1>t, <1>r, <3>3, <3>6, SliceDropped
    <3>9. got < End(Len(items)) + Needed(r.length, h, b)
      BY <1>e, <3>1, <3>2, <3>4, <3>5, <3>7
    <3>10. Waits(r)
      BY <1>2, <2>0, <3>1, <3>4, <3>7, <3>8, <3>9 DEF Waits, h, b, item
    <3>. QED  BY <3>10 DEF r
  <2>9. CASE Rejects(item, r)
    <3>1. Fails(r)
      BY <1>2, <2>0, <2>9 DEF Fails, Rejects, item
    <3>. QED  BY <3>1 DEF r
  <2>10. CASE Yields(length, buf, h, b, item, r)
    <3>1. /\ r.item = item /\ r.length = NoLength
          /\ Dropped(buf, r.buf, (Len(h) + 4 + Len(b)) - Past(length, h))
      BY <2>10 DEF Yields
    <3>2. PICK d \in Nat : d = (Len(h) + 4 + Len(b)) - Past(length, h) /\ Dropped(buf, r.buf, d)
      BY <1>t, <3>1 DEF Dropped
    <3>3. r.buf \in Seq(Symbols) /\ Len(r.buf) = Len(buf) - d /\ Len(r.buf) \in Nat
      BY <1>t, <3>2 DEF Dropped
    <3>4. End(Len(items) + 1) = At(length) + d /\ At(length) \in Nat
      <4>1. /\ At(length) = End(Len(items)) + Past(length, h)
            /\ End(Len(items) + 1) = End(Len(items)) + (Len(h) + 4 + Len(b))
        BY <2>2, <2>4, <2>5
      <4>2. ASSUME NEW e \in Nat, NEW p \in Nat, NEW x \in Nat, d = x - p
            PROVE  e + x = (e + p) + d /\ e + p \in Nat
        BY <4>2
      <4>3. Len(h) + 4 + Len(b) \in Nat
        BY <2>4
      <4>. QED  BY <1>e, <2>6, <3>2, <4>1, <4>2, <4>3
    <3>5. got = End(Len(items) + 1) + Len(r.buf)
      BY <1>t, <1>r, <3>3, <3>4
    <3>6. Slice(r.buf, End(Len(items) + 1))
      BY <1>t, <1>r, <3>2, <3>4, SliceDropped
    <3>7. Gives(r)
      BY <1>2, <2>0, <3>1, <3>3, <3>5, <3>6 DEF Gives, item
    <3>. QED  BY <3>7 DEF r
  <2>. QED  BY <2>7, <2>8, <2>9, <2>10
<1>. QED  BY <1>1, <1>2, <1>r, <1>t

(* A poll of the decoder keeps the invariant, whichever of its five        *)
(* outcomes it has.                                                        *)
LEMMA PollDecodeInv == Inv /\ PollDecode => Inv'
<1> SUFFICES ASSUME Inv, PollDecode PROVE Inv'
  OBVIOUS
<1>0. PICK r : r = Decode(length, buf)
  OBVIOUS
<1>1. /\ reader = "open" /\ readable
      /\ length' = r.length /\ buf' = r.buf
      /\ UNCHANGED <<sent, wire, closed, stream, ends, eof, got>>
  BY <1>0 DEF PollDecode, peerVars
<1>2. \/ /\ r.item \in Messages /\ items' = Append(items, r.item)
         /\ readable' = readable /\ reader' = reader
      \/ r.item = Error /\ items' = Append(items, Error) /\ reader' = "failed" /\ readable' = readable
      \/ r.item = Nothing /\ ~eof /\ readable' = FALSE /\ items' = items /\ reader' = reader
      \/ r.item = Nothing /\ eof /\ r.buf = <<>> /\ reader' = "ended"
         /\ items' = items /\ readable' = readable
      \/ r.item = Nothing /\ eof /\ r.buf # <<>> /\ items' = Append(items, Truncated)
         /\ reader' = "failed" /\ readable' = readable
  BY <1>0 DEF PollDecode
<1>3. Waits(r) \/ Fails(r) \/ Gives(r)
  BY <1>0, <1>1, DecodeOutcome
<1>4. /\ TypeOK /\ Layout /\ InFlight /\ InOrder
      /\ items \in Seq(Messages \cup {Error, Truncated})
      /\ Len(items) \in Nat /\ Len(sent) \in Nat /\ Len(items) <= Len(sent)
  BY <1>1 DEF Inv, TypeOK, Reading
<1>5. Layout' /\ InFlight'
  BY <1>1, <1>4 DEF Layout, FrameAt, End, InFlight, Slice
<1>6. Messages \cap {Nothing, Error, Truncated} = {} /\ Nothing # Error
  BY CodecAssumption DEF Nothing, Error, Truncated
<1>7. r.buf \in Seq(Symbols) /\ r.length \in Nat \cup {NoLength}
  <2>1. CASE Waits(r)
    <3>1. CASE r.length = NoLength
      BY <2>1, <3>1 DEF Waits
    <3>2. CASE r.length # NoLength
      <4>1. Len(items) + 1 \in 1..Len(sent) /\ r.length = Len(Current.body)
        BY <1>4, <2>1, <3>2 DEF Waits, Known
      <4>2. WellFormed(Current)
        BY <1>4, <4>1 DEF Layout, FrameAt, Current
      <4>3. Len(Current.body) \in Nat
        BY <4>2, FrameFacts
      <4>. QED  BY <2>1, <4>1, <4>3 DEF Waits
    <3>. QED  BY <3>1, <3>2
  <2>2. CASE Fails(r) \/ Gives(r)
    BY <2>2 DEF Fails, Gives
  <2>. QED  BY <1>3, <2>1, <2>2
<1>8. TypeOK'
  <2>1. items' \in Seq(Messages \cup {Error, Truncated})
    BY <1>2, <1>4
  <2>2. readable' \in BOOLEAN /\ reader' \in {"open", "failed", "ended"}
    BY <1>2, <1>4 DEF TypeOK
  <2>. QED  BY <1>1, <1>4, <1>7, <2>1, <2>2 DEF TypeOK
<1>9. InOrder'
  <2>1. ASSUME NEW x, items' = Append(items, x), x \in Messages \cup {Error, Truncated},
               \/ x = Truncated /\ closed
               \/ Len(items) < Len(sent) /\ x = Current.item
        PROVE  InOrder'
    <3>1. /\ DOMAIN items' = 1..(Len(items) + 1) /\ items'[Len(items) + 1] = x
          /\ \A i \in 1..Len(items) : items'[i] = items[i]
      BY <1>4, <2>1
    <3>2. ASSUME NEW i \in DOMAIN items'
          PROVE  (items'[i] = Truncated /\ closed) \/ (i <= Len(sent) /\ items'[i] = sent[i].item)
      <4>1. CASE i \in 1..Len(items)
        BY <1>4, <3>1, <4>1 DEF InOrder
      <4>2. CASE i = Len(items) + 1
        BY <1>4, <2>1, <3>1, <4>2 DEF Current
      <4>. QED  BY <1>4, <3>1, <4>1, <4>2
    <3>. QED  BY <1>1, <3>2 DEF InOrder
  <2>2. CASE items' = items
    BY <1>1, <1>4, <2>2 DEF InOrder
  <2>3. CASE r.item \in Messages /\ items' = Append(items, r.item)
    <3>1. Len(items) < Len(sent) /\ r.item = Current.item
      BY <1>3, <1>6, <2>3 DEF Waits, Fails, Gives
    <3>. QED  BY <2>1, <2>3, <3>1
  <2>4. CASE r.item = Error /\ items' = Append(items, Error)
    <3>1. Len(items) < Len(sent) /\ Error = Current.item
      BY <1>3, <1>6, <2>4 DEF Waits, Fails, Gives
    <3>. QED  BY <2>1, <2>4, <3>1
  <2>5. CASE eof /\ items' = Append(items, Truncated)
    <3>1. closed
      BY <1>4, <2>5 DEF InFlight
    <3>. QED  BY <2>1, <2>5, <3>1
  <2>. QED  BY <1>2, <2>2, <2>3, <2>4, <2>5
<1>10. ASSUME items' = items
       PROVE  /\ Current' = Current /\ End(Len(items))' = End(Len(items))
              /\ At(length)' = At(r.length)
  BY <1>1, <1>10 DEF Current, End, At
<1>11. Waits(r) \/ r.item # Nothing
  <2>1. ASSUME Gives(r) PROVE r.item # Nothing
    <3>1. Len(items) + 1 \in 1..Len(sent) /\ r.item = Current.item
      BY <1>4, <2>1 DEF Gives
    <3>2. WellFormed(Current)
      BY <1>4, <3>1 DEF Layout, FrameAt, Current
    <3>3. Current.item \in Messages \cup {Error}
      BY <3>2, FrameFacts
    <3>. QED  BY <1>6, <3>1, <3>3
  <2>. QED  BY <1>3, <1>6, <2>1 DEF Fails
<1>12. Reading' /\ Starved'
  <2> SUFFICES ASSUME reader' = "open" PROVE Reading' /\ Starved'
    BY DEF Reading, Starved
  <2>1. CASE r.item \in Messages /\ items' = Append(items, r.item) /\ readable' = readable
    <3>1. Gives(r)
      BY <1>3, <1>6, <2>1 DEF Waits, Fails
    <3>2. Len(items') = Len(items) + 1
      BY <1>4, <2>1
    <3>3. End(Len(items))' = End(Len(items) + 1)
      BY <1>1, <3>2 DEF End
    <3>4. length' = NoLength /\ At(length)' = End(Len(items) + 1)
      <4>1. Len(items) + 1 \in 0..Len(sent) /\ length' = NoLength
        BY <1>1, <1>4, <3>1 DEF Gives
      <4>2. End(Len(items) + 1) \in Nat
        BY <1>4, <4>1, EndsAreNumbers
      <4>. QED  BY <3>3, <4>1, <4>2 DEF At, Past
    <3>5. Len(items') <= Len(sent)
      BY <1>4, <3>1, <3>2 DEF Gives
    <3>6. got = End(Len(items) + 1) + Len(r.buf) /\ Slice(r.buf, End(Len(items) + 1))
      BY <3>1 DEF Gives
    <3>7. Reading'
      BY <1>1, <3>4, <3>5, <3>6 DEF Reading, Slice
    <3>. QED  BY <1>1, <2>1, <3>7 DEF Starved
  <2>2. CASE r.item = Nothing /\ items' = items
    <3>1. Waits(r)
      BY <1>11, <2>2
    <3>2. Reading'
      BY <1>1, <1>4, <1>10, <2>2, <3>1 DEF Reading, Waits, Slice
    <3>3. Starved'
      BY <1>1, <1>10, <2>2, <3>1 DEF Starved, Waits
    <3>. QED  BY <3>2, <3>3
  <2>. QED  BY <1>2, <2>1, <2>2
<1>13. Stopped'
  <2> SUFFICES ASSUME reader' = "ended" PROVE Stopped'
    BY DEF Stopped
  <2>1. r.item = Nothing /\ eof /\ r.buf = <<>> /\ items' = items
    BY <1>1, <1>2
  <2>2. closed' /\ Waits(r)
    BY <1>1, <1>4, <1>11, <2>1 DEF InFlight
  <2>3. got = At(r.length) /\ End(Len(items)) \in Nat
    <3>1. Len(items) \in 0..Len(sent)
      BY <1>4
    <3>2. End(Len(items)) \in Nat
      BY <1>4, <3>1, EndsAreNumbers
    <3>3. At(r.length) \in Nat
      <4>1. CASE r.length = NoLength
        BY <3>2, <4>1 DEF At, Past
      <4>2. CASE r.length # NoLength
        <5>1. Len(items) + 1 \in 1..Len(sent)
          BY <1>4, <2>2, <4>2 DEF Waits
        <5>2. WellFormed(Current)
          BY <1>4, <5>1 DEF Layout, FrameAt, Current
        <5>3. Len(Current.head) \in Nat
          BY <5>2, FrameFacts
        <5>. QED  BY <3>2, <5>3 DEF At, Past
      <4>. QED  BY <4>1, <4>2
    <3>4. Len(r.buf) = 0 /\ got = At(r.length) + Len(r.buf)
      BY <2>1, <2>2 DEF Waits
    <3>. QED  BY <3>2, <3>3, <3>4
  <2>4. r.length = NoLength => got = End(Len(items))
    BY <2>3 DEF At, Past
  <2>5. r.length # NoLength => got = End(Len(items)) + Len(Current.head) + Len(HeaderTerminator)
    <3>1. ASSUME r.length # NoLength PROVE Len(Current.head) \in Nat
      <4>1. Len(items) + 1 \in 1..Len(sent)
        BY <1>4, <2>2, <3>1 DEF Waits
      <4>2. WellFormed(Current)
        BY <1>4, <4>1 DEF Layout, FrameAt, Current
      <4>. QED  BY <4>2, FrameFacts
    <3>2. Len(HeaderTerminator) = 4
      BY TerminatorInSeq
    <3>. QED  BY <2>3, <3>1, <3>2 DEF At, Past
  <2>6. TruncationReported'
    BY <1>1, <1>10, <2>1, <2>4, <2>5 DEF TruncationReported, Current
  <2>. QED  BY <2>2, <2>6 DEF Stopped
<1>. QED  BY <1>5, <1>8, <1>9, <1>12, <1>13 DEF Inv

(* Every step keeps the invariant. *)
LEMMA InvNext == Inv /\ [Next]_vars => Inv'
<1> SUFFICES ASSUME Inv, [Next]_vars PROVE Inv'
  OBVIOUS
<1>1. ASSUME NEW m \in Messages, Send(Encode(m)) PROVE Inv'
  BY <1>1, SendInv, EncodeWellFormed
<1>2. ASSUME NEW f \in Foreign, Send(f) PROVE Inv'
  BY <1>2, SendInv, ForeignAssumption
<1>3. ASSUME NEW k \in 0..Len(wire), Close(k) PROVE Inv'
  BY <1>3, CloseInv
<1>4. ASSUME NEW k \in 1..Len(wire), PollRead(k) PROVE Inv'
  BY <1>4, PollReadInv
<1>5. CASE UNCHANGED vars
  <2>1. UNCHANGED <<sent, wire, closed, stream, ends, buf, length, readable, eof, reader, items, got>>
    BY <1>5 DEF vars, peerVars
  <2>. QED  BY <2>1 DEF Inv, TypeOK, Layout, FrameAt, End, InFlight, Slice, Reading, Starved,
                    At, Current, InOrder, Stopped, TruncationReported
<1>. QED  BY <1>1, <1>2, <1>3, <1>4, <1>5, PollEofInv, PollDecodeInv DEF Next

(* decode needs no more than the frame. *)
LEMMA NeededBound ==
    ASSUME NEW n, NEW h \in Seq(Symbols), NEW b \in Seq(Symbols)
    PROVE  /\ Len(Joined(h, b)) \in Nat /\ Needed(n, h, b) \in Nat
           /\ Needed(n, h, b) <= Len(Joined(h, b))
<1>0. Len(h) \in Nat /\ Len(b) \in Nat
  OBVIOUS
<1>1. Len(Joined(h, b)) = Len(h) + 4 + Len(b)
  BY JoinedElements
<1>2. Needed(n, h, b) = Len(h) + 4 \/ Needed(n, h, b) = Len(h) + 4 + Len(b)
  BY DEF Needed
<1>. QED  BY <1>0, <1>1, <1>2

(* The buffer and the length that decode keeps between calls stand for the *)
(* place in the stream where the loop is, for any number of frames of any  *)
(* length, any pieces they arrive in and any place the stream is closed.   *)
THEOREM Framing == Spec => []Inv
<1>1. Init => Inv
  BY InitInv
<1>2. Inv /\ [Next]_vars => Inv'
  BY InvNext
<1>. QED  BY <1>1, <1>2, PTL DEF Spec

(* The state has its type; an invalid content length is never kept. *)
THEOREM CodecTypes == Spec => []TypeOK
<1>1. Inv => TypeOK
  BY DEF Inv
<1>. QED  BY <1>1, Framing, PTL

(* The loop is given the frames' messages in the order they were written,  *)
(* none lost, merged or made up, up to the first error.                    *)
THEOREM MessagesInOrder == Spec => []InOrder
<1>1. Inv => InOrder
  BY DEF Inv
<1>. QED  BY <1>1, Framing, PTL

(* When decode asks for more bytes and all that was written has arrived,   *)
(* the loop has every message: no frame waits for bytes of the next one.   *)
THEOREM NothingIsHeldBack == Spec => []NothingHeldBack
<1>1. Inv => NothingHeldBack
  <2> SUFFICES ASSUME Inv, reader = "open", ~readable, wire = <<>>, ~closed
               PROVE  Len(items) = Len(sent)
    BY DEF NothingHeldBack
  <2>1. /\ Len(items) \in Nat /\ Len(sent) \in Nat /\ Len(stream) \in Nat /\ got \in Nat
        /\ Len(items) <= Len(sent) /\ got = Len(stream) /\ Layout
    BY DEF Inv, TypeOK, InFlight, Reading
  <2>2. ASSUME Len(items) < Len(sent) PROVE FALSE
    <3>0. PICK f : f = Current
      OBVIOUS
    <3>1. /\ Len(items) + 1 \in 1..Len(sent) /\ (Len(items) + 1) - 1 = Len(items)
          /\ Len(items) \in 0..Len(sent) /\ Len(items) + 1 \in 0..Len(sent)
      BY <2>1, <2>2
    <3>2. FrameAt(Len(items) + 1) /\ End(Len(items)) \in Nat /\ End(Len(items) + 1) \in 0..Len(stream)
      BY <2>1, <3>1 DEF Layout
    <3>3. WellFormed(f) /\ End(Len(items) + 1) = End(Len(items)) + Len(Wire(f))
      BY <3>0, <3>1, <3>2 DEF FrameAt, Current
    <3>4. PICK h \in Seq(Symbols), b \in Seq(Symbols) :
              h = f.head /\ b = f.body /\ Wire(f) = Joined(h, b)
      BY <3>3, FrameFacts
    <3>5. /\ Len(Wire(f)) \in Nat /\ Needed(length, h, b) \in Nat
          /\ Needed(length, h, b) <= Len(Wire(f))
      BY <3>4, NeededBound
    <3>6. got < End(Len(items)) + Needed(length, h, b)
      BY <2>2, <3>0, <3>4 DEF Inv, Starved
    <3>7. End(Len(items)) + Len(Wire(f)) <= Len(stream)
      BY <3>2, <3>3
    <3>. QED  BY <2>1, <3>2, <3>5, <3>6, <3>7
  <2>. QED  BY <2>1, <2>2
<1>. QED  BY <1>1, Framing, PTL

(* The loop ends without an error only at the end of a frame, or right     *)
(* after a header.                                                         *)
THEOREM TruncationIsReported == Spec => []TruncationReported
<1>1. Inv => TruncationReported
  BY DEF Inv, Stopped, TruncationReported
<1>. QED  BY <1>1, Framing, PTL
===========================================================================
