---------------------------- MODULE ContentProofs ----------------------------
(***************************************************************************)
(* Theorems about MessageContent: what becomes of the variables of a       *)
(* request, what the answers to a call mean, and what the reading of the   *)
(* template tables without a transaction can miss.                         *)
(***************************************************************************)
EXTENDS MessageContent, FiniteSetTheorems, FunctionTheorems, SequenceTheorems,
        WellFoundedInduction, TLAPS

Chars == {"@", "0", "x"}

AllChars == Chars \cup {"*"}

-----------------------------------------------------------------------------
(***************************************************************************)
(* Sequences of characters.                                                *)
(***************************************************************************)
LEMMA StringTyping ==
    ASSUME NEW s \in Seq(Chars)
    PROVE  /\ Len(s) \in Nat /\ DOMAIN s = 1..Len(s)
           /\ \A i \in DOMAIN s : s[i] \in Chars
           /\ \A n \in 0..Len(s) : SubSeq(s, 1, n) \in Seq(Chars) /\ Len(SubSeq(s, 1, n)) = n
  <1>1. /\ Len(s) \in Nat /\ DOMAIN s = 1..Len(s)
        /\ \A i \in DOMAIN s : s[i] \in Chars
    BY LenProperties, ElementOfSeq
  <1>2. ASSUME NEW n \in 0..Len(s)
        PROVE  SubSeq(s, 1, n) \in Seq(Chars) /\ Len(SubSeq(s, 1, n)) = n
    <2>1. \A i \in 1..n : s[i] \in Chars
      BY <1>1
    <2>2. /\ SubSeq(s, 1, n) \in Seq(Chars)
          /\ Len(SubSeq(s, 1, n)) = IF 1 <= n THEN n - 1 + 1 ELSE 0
      BY <1>1, <2>1, SubSeqProperties
    <2> QED BY <1>1, <2>2
  <1> QED BY <1>1, <1>2

\* A set of numbers has a least one.
LEMMA LeastNumber ==
    ASSUME NEW T \in SUBSET Nat, T # {}
    PROVE  \E n \in T : \A m \in T : n <= m
  <1>1. PICK R : IsWellFoundedOn(R, Nat) /\ \A m, n \in Nat : m < n => <<m, n>> \in R
    <2>1. \A m, n \in Nat : m < n => <<m, n>> \in OpToRel(<, Nat)
      BY Zenon DEF OpToRel
    <2> QED BY <2>1, NatLessThanWellFounded, Zenon
  <1>2. T \subseteq Nat
    OBVIOUS
  <1>3. \E n \in T : \A m \in T : ~(<<m, n>> \in R)
    <2>1. IsWellFoundedOn(R, Nat) /\ T # {}
      BY <1>1
    <2> QED BY <2>1, <1>2, WFMin
  <1>4. PICK n \in T : \A m \in T : ~(m < n)
    BY <1>1, <1>2, <1>3, Zenon
  <1> QED BY <1>2, <1>4

LEMMA FirstAt ==
    ASSUME NEW s \in Seq(Chars), \E i \in DOMAIN s : s[i] = "@"
    PROVE  AtIndex(s) \in DOMAIN s /\ s[AtIndex(s)] = "@"
  <1>1. DOMAIN s \subseteq Nat /\ \A i \in DOMAIN s : \A j \in 1..(i - 1) : j \in DOMAIN s
    BY StringTyping
  <1> DEFINE T == {i \in DOMAIN s : s[i] = "@"}
  <1>2. \E n \in T : \A m \in T : n <= m
    <2>1. T \in SUBSET Nat /\ T # {}
      BY <1>1
    <2> HIDE DEF T
    <2> QED BY <2>1, LeastNumber
  <1>3. \E i \in DOMAIN s : s[i] = "@" /\ \A j \in 1..(i - 1) : s[j] # "@"
    BY <1>1, <1>2
  <1> QED BY <1>3 DEF AtIndex

-----------------------------------------------------------------------------
(***************************************************************************)
(* What the masks show.                                                    *)
(***************************************************************************)
LEMMA EmailShown ==
    ASSUME NEW s \in Seq(Chars), \E i \in DOMAIN s : s[i] = "@"
    PROVE  \E i \in DOMAIN s :
              /\ s[i] = "@"
              /\ ShowsStart(MaskEmail(s), SubSeq(s, 1, i - 1), SubSeq(s, i, Len(s)), 2, 2)
  <1> DEFINE at == AtIndex(s)
             local == SubSeq(s, 1, at - 1)
             n == AtMost(KeptOfLocal(Len(local)), Len(local))
  <1>1. at \in DOMAIN s /\ s[at] = "@" /\ at - 1 \in 0..Len(s)
    BY FirstAt, StringTyping
  <1>2. Len(local) \in Nat
    BY <1>1, StringTyping
  <1>3. MaskEmail(s) = SubSeq(local, 1, n) \o Stars \o SubSeq(s, at, Len(s))
    BY DEF MaskEmail, Slice
  <1>4. /\ n \in 0..AtMost(2, Len(local))
        /\ Len(local) >= 2 => n < Len(local)
    <2>1. \A m \in Nat : /\ AtMost(KeptOfLocal(m), m) \in 0..AtMost(2, m)
                         /\ m >= 2 => AtMost(KeptOfLocal(m), m) < m
      BY DEF AtMost, AtLeast, KeptOfLocal
    <2> QED BY <1>2, <2>1
  <1>5. ShowsStart(MaskEmail(s), local, SubSeq(s, at, Len(s)), 2, 2)
    BY <1>3, <1>4 DEF ShowsStart
  <1> QED BY <1>1, <1>5

\* A string cut off after n characters, as the names and all other strings are.
LEMMA CutShown ==
    ASSUME NEW s \in Seq(Chars), NEW n \in Nat, NEW most \in Nat, NEW least \in Nat,
           AtMost(n, Len(s)) <= most, Len(s) >= least => AtMost(n, Len(s)) < Len(s)
    PROVE  ShowsStart(Slice(s, n) \o Stars, s, <<>>, most, least)
  <1> DEFINE k == AtMost(n, Len(s))
  <1>1. k \in 0..AtMost(most, Len(s)) /\ (Len(s) >= least => k < Len(s)) /\ k \in 0..Len(s)
    BY StringTyping DEF AtMost
  <1>2. SubSeq(s, 1, k) \in Seq(AllChars) /\ Stars \in Seq(AllChars)
    <2>1. SubSeq(s, 1, k) \in Seq(Chars)
      BY <1>1, StringTyping
    <2>2. SubSeq(s, 1, k) \in Seq(AllChars)
      BY <2>1, SeqMonotonic DEF AllChars
    <2> QED BY <2>2 DEF Stars, AllChars
  <1>3. Slice(s, n) \o Stars = SubSeq(s, 1, k) \o Stars \o <<>>
    BY <1>2, ConcatProperties, ConcatEmptySeq DEF Slice
  <1> QED BY <1>1, <1>3 DEF ShowsStart

LEMMA NameShown ==
    ASSUME NEW s \in Seq(Chars)
    PROVE  ShowsStart(MaskName(s), s, <<>>, 2, 3)
  <1>1. Len(s) \in Nat
    BY StringTyping
  <1> QED BY <1>1, CutShown DEF MaskName, AtMost

LEMMA GenericShown ==
    ASSUME NEW s \in Seq(Chars)
    PROVE  ShowsStart(MaskGeneric(s), s, <<>>, (Len(s) + 2) \div 3, 2)
  <1> DEFINE L == Len(s)
             third == (L + 2) \div 3
             n == AtLeast(1, third)
  <1>1. L \in Nat
    BY StringTyping
  <1>2. third \in Nat /\ 3 * third <= L + 2 /\ L < 3 * third + 1
    BY <1>1
  <1>3. n \in Nat /\ AtMost(n, L) <= third /\ (L >= 2 => AtMost(n, L) < L)
    BY <1>1, <1>2 DEF AtMost, AtLeast
  <1> QED BY <1>2, <1>3, CutShown DEF MaskGeneric

\* The elements of D with fewer than four larger ones are four of them, or all,
\* and the largest.
LEMMA LastFour ==
    ASSUME NEW D \in SUBSET Nat, IsFiniteSet(D)
    PROVE  LET shown == {i \in D : Cardinality({j \in D : j > i}) < 4} IN
           /\ Cardinality(shown) = AtMost(4, Cardinality(D))
           /\ \A i \in shown, j \in D \ shown : j < i
  <1> DEFINE above(i) == {j \in D : j > i}
             rank(i) == Cardinality(above(i))
             shown == {i \in D : rank(i) < 4}
             N == Cardinality(D)
             m == AtMost(4, N)
  <1>1. N \in Nat /\ \A i \in D : IsFiniteSet(above(i)) /\ rank(i) \in Nat
    BY FS_CardinalityType, FS_Subset
  <1>2. ASSUME NEW i \in D, NEW j \in D, i < j
        PROVE  rank(j) < rank(i)
    <2>1. above(j) \subseteq above(i) /\ above(j) # above(i)
      <3>1. i \in Nat /\ j \in Nat /\ D \subseteq Nat
        OBVIOUS
      <3>2. j \in above(i) /\ j \notin above(j)
        BY <1>2, <3>1
      <3>3. \A k \in D : k > j => k > i
        BY <1>2, <3>1
      <3> QED BY <3>2, <3>3
    <2>2. Cardinality(above(j)) <= Cardinality(above(i))
          /\ Cardinality(above(j)) # Cardinality(above(i))
      BY <1>1, <2>1, FS_Subset
    <2> QED BY <1>1, <2>2
  <1>3. ASSUME NEW i \in D
        PROVE  rank(i) \in 0..(N - 1)
    <2>1. IsFiniteSet(D \ {i}) /\ Cardinality(D \ {i}) = N - 1
      BY FS_RemoveElement
    <2>2. above(i) \subseteq D \ {i}
      OBVIOUS
    <2>3. Cardinality(above(i)) <= Cardinality(D \ {i})
      BY <2>1, <2>2, FS_Subset
    <2> QED BY <1>1, <2>1, <2>3
  <1>4. \A k \in 0..(N - 1) : \E i \in D : rank(i) = k
    <2> DEFINE f == [i \in D |-> rank(i)]
    <2>1. f \in Injection(D, 0..(N - 1))
      <3>1. f \in [D -> 0..(N - 1)]
        BY <1>3
      <3>2. \A i, j \in D : f[i] = f[j] => i = j
        BY <1>1, <1>2
      <3> HIDE DEF f
      <3> QED BY <3>1, <3>2, Fun_IsInj
    <2>2. IsFiniteSet(0..(N - 1)) /\ Cardinality(0..(N - 1)) = N
      <3>1. N \in Nat /\ 0 \in Int /\ N - 1 \in Int /\ (N - 1) - 0 + 1 = N
            /\ (0 > N - 1 => N = 0)
        BY <1>1
      <3> HIDE DEF N
      <3> QED BY <3>1, FS_Interval
    <2>3. f \in Surjection(D, 0..(N - 1))
      BY <2>1, <2>2, FS_Injection
    <2>4. \A k \in 0..(N - 1) : \E i \in D : f[i] = k
      <3> HIDE DEF f
      <3> QED BY <2>3 DEF Surjection
    <2> QED BY <2>4
  <1>5. m \in Nat /\ m <= 4 /\ m <= N /\ (m = 4 \/ m = N)
    BY <1>1 DEF AtMost
  <1>6. Cardinality(shown) = m
    <2> DEFINE g == [i \in shown |-> rank(i)]
    <2>1. g \in [shown -> 0..(m - 1)]
      <3>1. ASSUME NEW i \in shown
            PROVE  rank(i) \in 0..(m - 1)
        BY <1>1, <1>3, <1>5, <3>1
      <3> QED BY <3>1
    <2>2. \A i, j \in shown : g[i] = g[j] => i = j
      BY <1>1, <1>2
    <2>3. \A k \in 0..(m - 1) : \E i \in shown : g[i] = k
      <3> SUFFICES ASSUME NEW k \in 0..(m - 1) PROVE \E i \in shown : g[i] = k
        OBVIOUS
      <3>1. k \in 0..(N - 1) /\ k < 4
        <4> HIDE DEF N, m
        <4> QED BY <1>1, <1>5
      <3>2. PICK i \in D : rank(i) = k
        BY <1>4, <3>1
      <3>3. i \in shown
        BY <3>1, <3>2
      <3> QED BY <3>2, <3>3
    <2>4. ExistsBijection(shown, 0..(m - 1))
      <3>1. g \in Bijection(shown, 0..(m - 1))
        <4> HIDE DEF g, shown, m
        <4> QED BY <2>1, <2>2, <2>3, Fun_IsBij
      <3> QED BY <3>1 DEF ExistsBijection
    <2>5. IsFiniteSet(shown)
      BY FS_Subset
    <2>6. Cardinality(0..(m - 1)) = m
      BY <1>5, FS_Interval
    <2> HIDE DEF shown, m
    <2> QED BY <2>4, <2>5, <2>6, FS_Bijection
  <1>7. \A i \in shown, j \in D \ shown : j < i
    BY <1>1, <1>2
  <1> QED BY <1>6, <1>7

LEMMA PhoneShown ==
    ASSUME NEW s \in Seq(Chars)
    PROVE  ShowsLastFour(MaskPhone(s), s)
  <1> DEFINE digits == {i \in DOMAIN s : s[i] = "0"}
             rank(i) == Cardinality({j \in digits : j > i})
             m == MaskPhone(s)
             shown == {i \in digits : m[i] = "0"}
  <1>1. Len(s) \in Nat /\ DOMAIN s = 1..Len(s)
    BY StringTyping
  <1>2. \A i \in DOMAIN s : m[i] = IF i \in digits /\ rank(i) >= 4 THEN "*" ELSE s[i]
    <2>1. \A i : {j \in DOMAIN s : j > i /\ s[j] = "0"} = {j \in digits : j > i}
      OBVIOUS
    <2> QED BY <2>1 DEF MaskPhone
  <1>3. digits \in SUBSET Nat /\ IsFiniteSet(digits)
    <2>1. IsFiniteSet(1..Len(s))
      BY <1>1, FS_Interval
    <2> QED BY <1>1, <2>1, FS_Subset
  <1>4. \A i \in digits : rank(i) \in Nat
    BY <1>3, FS_Subset, FS_CardinalityType
  <1>5. shown = {i \in digits : rank(i) < 4}
    BY <1>2, <1>4
  <1>6. /\ Cardinality(shown) = AtMost(4, Cardinality(digits))
        /\ \A i \in shown, j \in digits \ shown : j < i
    <2> HIDE DEF digits, shown
    <2> QED BY <1>3, <1>5, LastFour
  <1>7. \A i \in DOMAIN s \ shown : m[i] = IF i \in digits THEN "*" ELSE s[i]
    BY <1>2, <1>4, <1>5
  <1>8. Len(m) = Len(s)
    BY <1>1 DEF MaskPhone
  <1> QED BY <1>6, <1>7, <1>8 DEF ShowsLastFour

LEMMA LeafShown ==
    ASSUME NEW k, NEW v \in Leaves
    PROVE  RevealsLittle(k, v, JsonLeaf(MaskLeaf(k, v)))
  <1>1. CASE v.type # "string"
    BY <1>1 DEF MaskLeaf, RevealsLittle
  <1>2. CASE v.type = "string"
    <2>1. v.chars \in Seq(Chars)
      BY <1>2 DEF Leaves, PlainTypes, Chars
    <2>2. JsonLeaf(MaskLeaf(k, v)) = Text(MaskText(k, v.chars))
      BY <1>2 DEF MaskLeaf, JsonLeaf, Text
    <2>3. JsonLeaf(MaskLeaf(k, v)).chars = MaskText(k, v.chars)
      BY <2>2 DEF Text
    <2> SUFFICES \/ /\ "email" \in Words[k]
                    /\ \E i \in DOMAIN v.chars :
                         /\ v.chars[i] = "@"
                         /\ ShowsStart(MaskText(k, v.chars), SubSeq(v.chars, 1, i - 1),
                                       SubSeq(v.chars, i, Len(v.chars)), 2, 2)
                 \/ "phone" \in Words[k] /\ ShowsLastFour(MaskText(k, v.chars), v.chars)
                 \/ "name" \in Words[k] /\ ShowsStart(MaskText(k, v.chars), v.chars, <<>>, 2, 3)
                 \/ ShowsStart(MaskText(k, v.chars), v.chars, <<>>, (Len(v.chars) + 2) \div 3, 2)
      BY <1>2, <2>3 DEF RevealsLittle
    <2>4. CASE MaskText(k, v.chars) = MaskGeneric(v.chars)
      BY <2>1, <2>4, GenericShown
    <2>5. CASE "email" \in Words[k] /\ \E i \in DOMAIN v.chars : v.chars[i] = "@"
      <3>1. MaskText(k, v.chars) = MaskEmail(v.chars)
        BY <2>5 DEF MaskText
      <3> QED BY <2>1, <2>5, <3>1, EmailShown
    <2>6. CASE "phone" \in Words[k] /\ "email" \notin Words[k]
      <3>1. MaskText(k, v.chars) = MaskPhone(v.chars)
        BY <2>6 DEF MaskText
      <3> QED BY <2>1, <2>6, <3>1, PhoneShown
    <2>7. CASE "name" \in Words[k] /\ "email" \notin Words[k] /\ "phone" \notin Words[k]
      <3>1. MaskText(k, v.chars) = MaskName(v.chars)
        BY <2>7 DEF MaskText
      <3> QED BY <2>1, <2>7, <3>1, NameShown
    <2>8. \/ MaskText(k, v.chars) = MaskGeneric(v.chars)
          \/ "email" \in Words[k] /\ \E i \in DOMAIN v.chars : v.chars[i] = "@"
          \/ "phone" \in Words[k] /\ "email" \notin Words[k]
          \/ "name" \in Words[k] /\ "email" \notin Words[k] /\ "phone" \notin Words[k]
      BY DEF MaskText, MaskEmail
    <2> QED BY <2>4, <2>5, <2>6, <2>7, <2>8
  <1> QED BY <1>1, <1>2

\* The masked copy of a document.
LEMMA DocumentShown ==
    ASSUME NEW d, IsDocument(d)
    PROVE  LET m == JsonData(Mask(d)) IN
           /\ DOMAIN m = DOMAIN d
           /\ \A k \in DOMAIN d :
                IF d[k].type = "object"
                  THEN \A f \in DOMAIN d[k].fields :
                         RevealsLittle(f, d[k].fields[f], m[k].fields[f])
                  ELSE RevealsLittle(k, d[k], m[k])
  <1> DEFINE m == JsonData(Mask(d))
  <1>1. DOMAIN m = DOMAIN d /\ \A k \in DOMAIN d : m[k] = Json(MaskValue(k, d[k]))
    BY DEF JsonData, Mask
  <1>2. ASSUME NEW k \in DOMAIN d, d[k].type # "object"
        PROVE  RevealsLittle(k, d[k], m[k])
    <2>1. d[k] \in Leaves
      BY <1>2 DEF IsDocument, Object
    <2>2. MaskLeaf(k, d[k]).type # "object"
      BY <1>2 DEF MaskLeaf, Text
    <2>3. m[k] = JsonLeaf(MaskLeaf(k, d[k]))
      BY <1>1, <1>2, <2>2 DEF MaskValue, Json
    <2> QED BY <2>1, <2>3, LeafShown
  <1>3. ASSUME NEW k \in DOMAIN d, d[k].type = "object", NEW f \in DOMAIN d[k].fields
        PROVE  RevealsLittle(f, d[k].fields[f], m[k].fields[f])
    <2>1. d[k].fields[f] \in Leaves
      BY <1>3 DEF IsDocument, Leaves, PlainTypes
    <2>2. m[k].fields[f] = JsonLeaf(MaskLeaf(f, d[k].fields[f]))
      <3> DEFINE F == [g \in DOMAIN d[k].fields |-> MaskLeaf(g, d[k].fields[g])]
      <3>1. Object(F).type = "object" /\ Object(F).fields = F
        BY DEF Object
      <3>2. MaskValue(k, d[k]) = Object(F)
        BY <1>3 DEF MaskValue
      <3>3. DOMAIN F = DOMAIN d[k].fields /\ F[f] = MaskLeaf(f, d[k].fields[f])
        BY <1>3
      <3> HIDE DEF F
      <3>4. m[k] = Object([g \in DOMAIN F |-> JsonLeaf(F[g])])
        BY <1>1, <1>3, <3>1, <3>2 DEF Json
      <3>5. m[k].fields = [g \in DOMAIN F |-> JsonLeaf(F[g])]
        BY <3>4 DEF Object
      <3> QED BY <1>3, <3>3, <3>5
    <2> QED BY <2>1, <2>2, LeafShown
  <1> QED BY <1>1, <1>2, <1>3

-----------------------------------------------------------------------------
(***************************************************************************)
(* The stored content: a row is the one some call inserted, under one of   *)
(* the keys, and every event of the request is the one its row holds.      *)
(***************************************************************************)
RowOf(status, c, t, channel, input, k) ==
    [status |-> status, template |-> t, channel |-> channel,
     payload |-> Encrypt(k, input.document), masked |-> JsonData(Mask(input.document)),
     event |-> Event(t, channel, Encrypt(k, input.document)),
     by |-> c, variables |-> input.variables,
     sent |-> Event(t, channel, input.document)]

InsertedRow(r) ==
    \E status \in {"VALIDATED", "QUEUED"}, c \in Calls, t \in Templates, channel \in Channels,
       input \in Inputs, k \in EncryptionKeys :
       /\ Fits(input.variables, input.document)
       /\ row[r] = RowOf(status, c, t, channel, input, k)

RowsInserted ==
    /\ DOMAIN row = Requests
    /\ \A r \in Requests : row[r] = AbsentRow \/ InsertedRow(r)

EventsFollow ==
    /\ DOMAIN wire = Requests /\ DOMAIN handled = Requests
    /\ \A r \in Requests :
         /\ wire[r] \subseteq {row[r].event} /\ (wire[r] # {} => Stored(r))
         /\ handled[r] \subseteq {Opened(row[r].event)} /\ (handled[r] # {} => Stored(r))
         /\ row[r].status = "QUEUED" => wire[r] # {}

DataInv ==
    /\ key \in [{"gateway", "worker"} -> EncryptionKeys]
    /\ RowsInserted
    /\ EventsFollow

\* What a step does to the rows of request r: nothing, the transaction of a
\* call, or the save that turns it QUEUED once its event was sent.  C: the calls
\* that take the step, one or none.
RowKept(r) == row'[r] = row[r]

RowInserted(c, r) ==
    /\ ~Stored(r) /\ At(c, "commit") /\ call[c].req = r
    /\ \E channel \in Channels, input \in Inputs, k \in EncryptionKeys :
          /\ Fits(input.variables, input.document)
          /\ row'[r] = RowOf("VALIDATED", c, call[c].code, channel, input, k)

RowQueued(r) ==
    /\ Stored(r) /\ wire[r] # {}
    /\ row'[r] = [row[r] EXCEPT !.status = "QUEUED"]

RowsMove(C) ==
    /\ DOMAIN row' = DOMAIN row
    /\ \A r \in Requests :
          \/ RowKept(r) \/ RowQueued(r)
          \/ \E c \in C : call[c].code \in Templates /\ RowInserted(c, r)

EventsMove ==
    /\ DOMAIN wire' = DOMAIN wire /\ DOMAIN handled' = DOMAIN handled
    /\ \A r \in Requests :
         /\ wire[r] \subseteq wire'[r] /\ wire'[r] \subseteq wire[r] \cup {row[r].event}
         /\ wire'[r] # wire[r] => Stored(r)
         /\ handled'[r] \subseteq handled[r] \cup {Opened(event) : event \in wire[r]}

\* The columns of a row.
LEMMA RowColumns ==
    ASSUME RowsInserted, NEW r \in Requests
    PROVE  /\ Stored(r) <=> InsertedRow(r)
           /\ Stored(r) => /\ row[r].by \in Calls /\ row[r].channel \in Channels
                           /\ row[r].template \in Templates
                           /\ row[r].status \in {"VALIDATED", "QUEUED"}
                           /\ row[r].sent.template = row[r].template
                           /\ row[r].sent.channel = row[r].channel
                           /\ StoredEvent(r) = row[r].event
           /\ ~Stored(r) => row[r] = AbsentRow /\ row[r].by = None
  <1>1. row[r] = AbsentRow => ~Stored(r) /\ row[r].by = None
    BY DEF Stored, AbsentRow
  <1>2. ASSUME InsertedRow(r)
        PROVE  /\ row[r].by \in Calls /\ row[r].channel \in Channels
               /\ row[r].template \in Templates
               /\ row[r].status \in {"VALIDATED", "QUEUED"}
               /\ row[r].sent.template = row[r].template
               /\ row[r].sent.channel = row[r].channel
               /\ StoredEvent(r) = row[r].event
    BY <1>2 DEF InsertedRow, RowOf, StoredEvent, Event
  <1>3. InsertedRow(r) => Stored(r)
    BY <1>2 DEF Stored
  <1> QED BY <1>1, <1>2, <1>3 DEF RowsInserted

\* ... stay what they are, but for the status.
LEMMA ColumnsStay ==
    ASSUME NEW C \in SUBSET Calls, RowsInserted, RowsMove(C), NEW r \in Requests, Stored(r)
    PROVE  /\ row'[r].by = row[r].by /\ row'[r].channel = row[r].channel
           /\ row'[r].template = row[r].template /\ row'[r].sent = row[r].sent
           /\ row'[r].event = row[r].event
           /\ Stored(r)' /\ InsertedRow(r)'
  <1>1. RowKept(r) \/ RowQueued(r)
    BY DEF RowsMove, RowInserted
  <1>2. PICK status \in {"VALIDATED", "QUEUED"}, c \in Calls, t \in Templates,
             channel \in Channels, input \in Inputs, k \in EncryptionKeys :
           /\ Fits(input.variables, input.document)
           /\ row[r] = RowOf(status, c, t, channel, input, k)
    BY RowColumns DEF InsertedRow
  <1>3. PICK status2 \in {"VALIDATED", "QUEUED"} :
           row'[r] = RowOf(status2, c, t, channel, input, k)
    BY <1>1, <1>2 DEF RowKept, RowQueued, RowOf
  <1>4. /\ row'[r].by = row[r].by /\ row'[r].channel = row[r].channel
        /\ row'[r].template = row[r].template /\ row'[r].sent = row[r].sent
        /\ row'[r].event = row[r].event /\ row'[r].status = status2
    BY <1>2, <1>3 DEF RowOf
  <1> QED BY <1>2, <1>3, <1>4 DEF InsertedRow, Stored

LEMMA DataStep ==
    ASSUME NEW C \in SUBSET Calls, DataInv, RowsMove(C), EventsMove,
           key' \in [{"gateway", "worker"} -> EncryptionKeys]
    PROVE  DataInv'
  <1> USE DEF DataInv
  <1>1. RowsInserted'
    <2> SUFFICES ASSUME NEW r \in Requests PROVE row'[r] = AbsentRow \/ InsertedRow(r)'
      BY DEF RowsInserted, RowsMove
    <2>1. CASE Stored(r)
      BY <2>1, ColumnsStay
    <2>2. CASE ~Stored(r) /\ RowKept(r)
      BY <2>2, RowColumns DEF RowKept
    <2>3. CASE ~Stored(r) /\ ~RowKept(r)
      <3>1. PICK c \in C : call[c].code \in Templates /\ RowInserted(c, r)
        BY <2>3 DEF RowsMove, RowQueued
      <3> QED BY <3>1 DEF RowInserted, InsertedRow
    <2> QED BY <2>1, <2>2, <2>3
  <1>2. EventsFollow'
    <2> SUFFICES ASSUME NEW r \in Requests
                 PROVE  /\ wire'[r] \subseteq {row'[r].event} /\ (wire'[r] # {} => Stored(r)')
                        /\ handled'[r] \subseteq {Opened(row'[r].event)}
                        /\ handled'[r] # {} => Stored(r)'
                        /\ row'[r].status = "QUEUED" => wire'[r] # {}
      BY DEF EventsFollow, EventsMove
    <2>1. /\ wire'[r] \subseteq {row[r].event} /\ (wire'[r] # {} => Stored(r))
          /\ handled'[r] \subseteq {Opened(row[r].event)} /\ (handled'[r] # {} => Stored(r))
      BY DEF EventsFollow, EventsMove
    <2>2. Stored(r) => Stored(r)' /\ row'[r].event = row[r].event
      BY ColumnsStay
    <2>3. row'[r].status = "QUEUED" => wire[r] # {}
      <3>1. CASE RowKept(r)
        BY <3>1 DEF RowKept, EventsFollow
      <3>2. CASE RowQueued(r)
        BY <3>2 DEF RowQueued
      <3>3. CASE \E c \in C : RowInserted(c, r)
        BY <3>3 DEF RowInserted, RowOf
      <3> QED BY <3>1, <3>2, <3>3 DEF RowsMove
    <2>4. wire[r] # {} => wire'[r] # {}
      BY DEF EventsMove
    <2> QED BY <2>1, <2>2, <2>3, <2>4
  <1> QED BY <1>1, <1>2

-----------------------------------------------------------------------------
(***************************************************************************)
(* The calls.                                                              *)
(***************************************************************************)
Codes ==
    {"none", "SYS_INTERNAL_ERROR", "MSG_TEMPLATE_NOT_FOUND", "MSG_INVALID_VARIABLES",
     "MSG_KAFKA_PUBLISH_FAILED"}

AnswerRecord ==
    [status: {0, 200, 201, 400, 404, 500, 503}, code: Codes,
     template: Templates \cup {None}, channel: Channels \cup {None}]

CallRecord ==
    [kind: Kinds, pc: CallPc, code: Templates \cup {None}, req: Requests \cup {None},
     channel: Channels \cup {None}, accesses: SUBSET Templates, served: SUBSET Templates,
     answer: AnswerRecord, always: SUBSET Templates, ever: SUBSET Templates, edited: Nat]

Sending == {"findExisting", "commit", "publish", "markQueued", "republish", "markRequeued"}

CallShape(c) ==
    /\ call[c] \in CallRecord
    /\ call[c].kind = "send" => call[c].req \in Requests
    /\ call[c].kind # "list" => call[c].code \in Templates
    /\ call[c].pc \in {"findTemplate", "findAccess"} => call[c].kind # "list"
    /\ call[c].pc = "findVariables" => call[c].kind \in {"variables", "send"}
    /\ call[c].pc \in Sending => call[c].kind = "send"
    /\ call[c].pc # "done" => call[c].answer = NoAnswer
    /\ call[c].always \subseteq call[c].ever

\* How far a call has come tells what is stored and sent.
CallFollows(c) ==
    /\ call[c].pc \in {"publish", "markQueued", "republish", "markRequeued"} =>
          Stored(call[c].req)
    /\ call[c].pc \in {"markQueued", "markRequeued"} => wire[call[c].req] # {}
    /\ call[c].pc \in {"publish", "markQueued"} => call[c].channel = row[call[c].req].channel
    /\ \A r \in Requests : row[r].by = c => /\ call[c].pc \in {"publish", "markQueued", "done"}
                                            /\ call[c].answer.status \notin {400, 404}

AnswerTrue(c) ==
    call[c].req # None /\ call[c].pc = "done" =>
       LET answer == call[c].answer
           found == row[call[c].req] IN
       /\ answer.status \in {400, 404} => found.by # c
       /\ answer.status = 503 => found.status # "ABSENT"
       /\ answer.status = 201 =>
            /\ wire[call[c].req] # {}
            /\ answer.template = found.sent.template
            /\ answer.channel = found.sent.channel

CallOk(c) == CallShape(c) /\ CallFollows(c) /\ AnswerTrue(c)

CallsInv == DOMAIN call = Calls /\ \A c \in Calls : CallOk(c)

LEMMA CallTyping ==
    ASSUME NEW c \in Calls, call[c] \in CallRecord
    PROVE  /\ call[c].kind \in Kinds /\ call[c].pc \in CallPc
           /\ call[c].code \in Templates \cup {None} /\ call[c].req \in Requests \cup {None}
           /\ call[c].accesses \subseteq Templates /\ call[c].served \subseteq Templates
           /\ call[c].answer \in AnswerRecord
           /\ call[c].always \subseteq Templates /\ call[c].ever \subseteq Templates
           /\ call[c].edited \in Nat
  BY DEF CallRecord

\* The stored content only grows for a call that rests.
LEMMA RestingOk ==
    ASSUME DataInv, NEW c \in Calls, CallOk(c), NEW C \in SUBSET Calls, c \notin C,
           RowsMove(C), EventsMove, call'[c] = call[c]
    PROVE  CallOk(c)'
  <1>1. CallShape(c)'
    BY DEF CallOk, CallShape
  <1>2. \A r \in Requests : row'[r].by = c => row[r].by = c
    <2> SUFFICES ASSUME NEW r \in Requests, row'[r].by = c PROVE row[r].by = c
      OBVIOUS
    <2>1. CASE Stored(r)
      BY <2>1, ColumnsStay DEF DataInv
    <2>2. CASE RowKept(r)
      BY <2>2 DEF RowKept
    <2>3. CASE \E d \in C : RowInserted(d, r)
      BY <2>3 DEF RowInserted, RowOf
    <2> QED BY <2>1, <2>2, <2>3 DEF RowsMove, RowQueued
  <1>3. \A r \in Requests :
           /\ wire[r] # {} => wire'[r] # {} /\ Stored(r)
           /\ Stored(r) => /\ Stored(r)' /\ row'[r].channel = row[r].channel
                           /\ row'[r].sent = row[r].sent
    BY ColumnsStay DEF DataInv, EventsMove, EventsFollow
  <1>4. call[c].kind = "send" => call[c].req \in Requests
    BY DEF CallOk, CallShape
  <1>5. CallFollows(c)'
    <2>1. call[c].pc \in {"publish", "markQueued", "republish", "markRequeued"} =>
             call[c].req \in Requests
      BY <1>4 DEF CallOk, CallShape, Sending
    <2>2. PICK q : q = call[c].req
      OBVIOUS
    <2> QED BY <1>2, <1>3, <2>1, <2>2 DEF CallOk, CallFollows, Stored
  <1>6. AnswerTrue(c)'
    <2> SUFFICES ASSUME NEW q \in Requests, q = call[c].req, call[c].pc = "done"
                 PROVE  /\ call[c].answer.status \in {400, 404} => row'[q].by # c
                        /\ call[c].answer.status = 503 => row'[q].status # "ABSENT"
                        /\ call[c].answer.status = 201 =>
                             /\ wire'[q] # {}
                             /\ call[c].answer.template = row'[q].sent.template
                             /\ call[c].answer.channel = row'[q].sent.channel
      BY DEF AnswerTrue, CallOk, CallShape, CallRecord
    <2>1. q # None
      BY ContentAssumption
    <2> QED BY <1>2, <1>3, <2>1 DEF CallOk, AnswerTrue, Stored
  <1> QED BY <1>1, <1>5, <1>6 DEF CallOk

\* A call that ends, with an answer that is true.
LEMMA EndingOk ==
    ASSUME NEW c \in Calls, CallOk(c), NEW a \in AnswerRecord, NEW served \in SUBSET Templates,
           call'[c] = Finished(c, a, served),
           a.status \in {400, 404} => \A r \in Requests : row'[r].by # c,
           \A q \in Requests : q = call[c].req =>
              /\ a.status = 503 => Stored(q)'
              /\ a.status = 201 => /\ wire'[q] # {}
                                   /\ a.template = row'[q].sent.template
                                   /\ a.channel = row'[q].sent.channel
    PROVE  CallOk(c)'
  <1>1. call[c].req \in Requests \cup {None}
    BY CallTyping DEF CallOk, CallShape
  <1>2. /\ call'[c].pc = "done" /\ call'[c].req = call[c].req /\ call'[c].answer = a
        /\ call'[c].kind = "list" /\ call'[c].always = {} /\ call'[c].ever = {}
        /\ call'[c].code = None /\ call'[c].channel = None /\ call'[c].served = served
        /\ call'[c].accesses = {} /\ call'[c].edited = 0
    BY DEF Finished, IdleCall
  <1>3. call'[c] \in CallRecord
    <2>1. call'[c] = [kind |-> "list", pc |-> "done", code |-> None, req |-> call[c].req,
                      channel |-> None, accesses |-> {}, served |-> served, answer |-> a,
                      always |-> {}, ever |-> {}, edited |-> 0]
      BY DEF Finished, IdleCall
    <2>2. "list" \in Kinds /\ "done" \in CallPc
      BY DEF Kinds, CallPc
    <2> QED BY <1>1, <2>1, <2>2 DEF CallRecord
  <1>4. CallShape(c)'
    BY <1>2, <1>3 DEF CallShape, Sending
  <1>5. CallFollows(c)'
    BY <1>2 DEF CallFollows
  <1>6. AnswerTrue(c)'
    <2> SUFFICES ASSUME NEW q \in Requests, q = call[c].req
                 PROVE  /\ a.status \in {400, 404} => row'[q].by # c
                        /\ a.status = 503 => row'[q].status # "ABSENT"
                        /\ a.status = 201 => /\ wire'[q] # {}
                                             /\ a.template = row'[q].sent.template
                                             /\ a.channel = row'[q].sent.channel
      BY <1>1, <1>2 DEF AnswerTrue
    <2> QED BY DEF Stored
  <1> QED BY <1>4, <1>5, <1>6 DEF CallOk

\* A call that goes on before it has stored anything.
LEMMA EarlyOk ==
    ASSUME NEW c \in Calls, CallOk(c), UNCHANGED row,
           call[c].pc \notin {"publish", "markQueued", "done"},
           call'[c] \in CallRecord,
           call'[c].kind = call[c].kind, call'[c].code = call[c].code,
           call'[c].req = call[c].req, call'[c].answer = call[c].answer,
           call'[c].always \subseteq call'[c].ever,
           call'[c].pc \in ReadingPcs \cup {"findExisting", "findVariables", "commit"},
           call'[c].pc \in {"findTemplate", "findAccess"} => call[c].kind # "list",
           call'[c].pc = "findVariables" => call[c].kind \in {"variables", "send"},
           call'[c].pc \in {"findExisting", "commit"} => call[c].kind = "send"
    PROVE  CallOk(c)'
  BY DEF CallOk, CallShape, CallFollows, AnswerTrue, ReadingPcs, Sending

\* A call that goes on with a request that is stored.
LEMMA LateOk ==
    ASSUME NEW c \in Calls, CallOk(c), call[c].kind = "send", NEW q \in Requests, q = call[c].req,
           call[c].pc # "done",
           NEW pc \in {"publish", "markQueued", "republish", "markRequeued"},
           NEW channel \in Channels \cup {None},
           call'[c] = [call[c] EXCEPT !.pc = pc, !.channel = channel],
           Stored(q)',
           pc \in {"markQueued", "markRequeued"} => wire'[q] # {},
           pc \in {"publish", "markQueued"} => channel = row'[q].channel,
           \A r \in Requests : row'[r].by = c => pc \in {"publish", "markQueued"}
    PROVE  CallOk(c)'
  <1>1. call[c] \in CallRecord
    BY DEF CallOk, CallShape
  <1>2. /\ call'[c].pc = pc /\ call'[c].channel = channel /\ call'[c].kind = "send"
        /\ call'[c].code = call[c].code /\ call'[c].req = q
        /\ call'[c].answer = call[c].answer
        /\ call'[c].always = call[c].always /\ call'[c].ever = call[c].ever
        /\ call'[c] \in CallRecord
    BY <1>1 DEF CallRecord, CallPc
  <1>3. CallShape(c)'
    BY <1>2 DEF CallOk, CallShape, Sending
  <1>4. call'[c].answer.status = 0
    BY <1>2 DEF CallOk, CallShape, NoAnswer, Answer
  <1>5. CallFollows(c)'
    BY <1>2, <1>4 DEF CallFollows, Stored
  <1>6. AnswerTrue(c)'
    BY <1>2 DEF AnswerTrue
  <1> QED BY <1>3, <1>5, <1>6 DEF CallOk

LEMMA Answers ==
    /\ NoAnswer \in AnswerRecord /\ NoAnswer.status = 0
    /\ Answer(200, "none") \in AnswerRecord /\ Answer(200, "none").status = 200
    /\ \A t \in Templates, channel \in Channels :
          /\ OkAnswer(t, channel) \in AnswerRecord /\ OkAnswer(t, channel).status = 201
          /\ OkAnswer(t, channel).template = t /\ OkAnswer(t, channel).channel = channel
    /\ Resolve(OtherError) \in AnswerRecord /\ Resolve(OtherError).status = 500
    /\ Resolve(HttpException(400)) \in AnswerRecord
    /\ \A code \in Codes : \A status \in {400, 404, 503} :
          /\ Resolve(AppException(code, status)) \in AnswerRecord
          /\ Resolve(AppException(code, status)).status = status
  <1> DEFINE Statuses == {0, 200, 201, 400, 404, 500, 503}
  <1>1. ASSUME NEW status \in Statuses, NEW code \in Codes
        PROVE  Answer(status, code) \in AnswerRecord /\ Answer(status, code).status = status
    BY DEF Answer, AnswerRecord
  <1>2. ASSUME NEW t \in Templates, NEW channel \in Channels
        PROVE  /\ OkAnswer(t, channel) \in AnswerRecord /\ OkAnswer(t, channel).status = 201
               /\ OkAnswer(t, channel).template = t /\ OkAnswer(t, channel).channel = channel
    <2>1. Answer(201, "none") = [status |-> 201, code |-> "none",
                                 template |-> None, channel |-> None]
      BY DEF Answer
    <2>2. OkAnswer(t, channel) = [status |-> 201, code |-> "none",
                                  template |-> t, channel |-> channel]
      <3>1. OkAnswer(t, channel) =
               [[status |-> 201, code |-> "none", template |-> None, channel |-> None]
                  EXCEPT !.template = t, !.channel = channel]
        BY ONLY <2>1 DEF OkAnswer
      <3> QED BY ONLY <3>1
    <2>3. 201 \in Statuses /\ "none" \in Codes
      BY DEF Codes
    <2> QED BY <2>2, <2>3 DEF AnswerRecord
  <1>3. /\ Resolve(OtherError) = Answer(500, "SYS_INTERNAL_ERROR")
        /\ Resolve(HttpException(400)) = Answer(400, "none")
        /\ \A code, status : Resolve(AppException(code, status)) = Answer(status, code)
    BY DEF Resolve, OtherError, HttpException, AppException
  <1>4. /\ 0 \in Statuses /\ 200 \in Statuses /\ 500 \in Statuses
        /\ 400 \in Statuses /\ 404 \in Statuses /\ 503 \in Statuses
        /\ "none" \in Codes /\ "SYS_INTERNAL_ERROR" \in Codes
    BY DEF Codes
  <1> HIDE DEF Statuses
  <1>5. NoAnswer \in AnswerRecord /\ NoAnswer.status = 0
    BY <1>1, <1>4 DEF NoAnswer
  <1>6. Answer(200, "none") \in AnswerRecord /\ Answer(200, "none").status = 200
    BY <1>1, <1>4
  <1>7. Resolve(OtherError) \in AnswerRecord /\ Resolve(OtherError).status = 500
    BY <1>1, <1>3, <1>4
  <1>8. Resolve(HttpException(400)) \in AnswerRecord
    BY <1>1, <1>3, <1>4
  <1>9. ASSUME NEW code \in Codes, NEW status \in {400, 404, 503}
        PROVE  /\ Resolve(AppException(code, status)) \in AnswerRecord
               /\ Resolve(AppException(code, status)).status = status
    <2>1. Resolve(AppException(code, status)) = Answer(status, code)
      BY <1>3
    <2> QED BY <1>1, <1>4, <2>1
  <1> QED BY <1>2, <1>5, <1>6, <1>7, <1>8, <1>9

\* What a step of call c leaves of the calls.
CallMoved(c) ==
    /\ DOMAIN call' = Calls /\ \A d \in Calls \ {c} : call'[d] = call[d]
    /\ CallOk(c)'

LEMMA ContentKept ==
    ASSUME NEW C \in SUBSET Calls, UNCHANGED contentVars
    PROVE  RowsMove(C) /\ EventsMove
  BY DEF contentVars, RowsMove, RowKept, EventsMove

\* A call that ends before it has stored anything is refused in good faith.
LEMMA Refused ==
    ASSUME CallsInv, NEW c \in Calls, UNCHANGED row,
           call[c].pc \notin {"publish", "markQueued", "done"},
           NEW exception, Resolve(exception) \in AnswerRecord,
           Resolve(exception).status \in {400, 404, 500}, Throws(c, exception)
    PROVE  CallMoved(c)
  <1> DEFINE a == Resolve(exception)
  <1>1. /\ call'[c] = Finished(c, a, {}) /\ DOMAIN call' = Calls
        /\ \A d \in Calls \ {c} : call'[d] = call[d]
    BY DEF Throws, Done, CallsInv
  <1>2. CallOk(c) /\ \A r \in Requests : row'[r].by # c
    BY DEF CallsInv, CallOk, CallFollows
  <1>3. a \in AnswerRecord /\ a.status \notin {201, 503} /\ {} \in SUBSET Templates
    OBVIOUS
  <1> HIDE DEF a
  <1>4. CallOk(c)'
    BY <1>1, <1>2, <1>3, EndingOk
  <1> QED BY <1>1, <1>4 DEF CallMoved

\* A read that has found what it looked for.
LEMMA Answered ==
    ASSUME CallsInv, NEW c \in Calls, UNCHANGED row, NEW served \in SUBSET Templates,
           Done(c, Answer(200, "none"), served)
    PROVE  CallMoved(c)
  <1> DEFINE a == Answer(200, "none")
  <1>1. /\ call'[c] = Finished(c, a, served) /\ DOMAIN call' = Calls
        /\ \A d \in Calls \ {c} : call'[d] = call[d]
    BY DEF Done, CallsInv
  <1>2. CallOk(c)
    BY DEF CallsInv
  <1>3. a \in AnswerRecord /\ a.status = 200
    BY Answers
  <1> HIDE DEF a
  <1>4. CallOk(c)'
    BY <1>1, <1>2, <1>3, EndingOk
  <1> QED BY <1>1, <1>4 DEF CallMoved

\* The columns of a call that goes on.
LEMMA GoesOn ==
    ASSUME CallsInv, NEW c \in Calls, NEW pc \in CallPc, Goto(c, pc)
    PROVE  /\ call'[c] = [call[c] EXCEPT !.pc = pc] /\ DOMAIN call' = Calls
           /\ \A d \in Calls \ {c} : call'[d] = call[d]
           /\ call'[c] \in CallRecord /\ call'[c].pc = pc
           /\ call'[c].kind = call[c].kind /\ call'[c].code = call[c].code
           /\ call'[c].req = call[c].req /\ call'[c].answer = call[c].answer
           /\ call'[c].always = call[c].always /\ call'[c].ever = call[c].ever
           /\ call'[c].channel = call[c].channel
  <1>1. /\ call'[c] = [call[c] EXCEPT !.pc = pc] /\ DOMAIN call' = Calls
        /\ \A d \in Calls \ {c} : call'[d] = call[d]
    BY DEF Goto, CallsInv
  <1>2. call[c] \in CallRecord
    BY DEF CallsInv, CallOk, CallShape
  <1> QED BY <1>1, <1>2 DEF CallRecord

\* The steps of a call that store and send nothing.
Reads(c) ==
    \/ Receive(c) \/ RefuseBody(c)
    \/ FindTemplate(c) \/ FindAccess(c) \/ FindAccesses(c) \/ FindAvailable(c)
    \/ FindExisting(c) \/ FindVariables(c)

LEMMA ReceiveMoves ==
    ASSUME CallsInv, NEW c \in Calls, Receive(c)
    PROVE  CallMoved(c)
  <1>1. PICK kind \in Kinds, t \in Templates, r \in Requests :
           call' = [call EXCEPT
                         ![c] = [IdleCall EXCEPT
                                   !.kind = kind,
                                   !.pc = CASE kind = "send" -> "findExisting"
                                            [] kind = "list" -> "findAccesses"
                                            [] OTHER -> "findTemplate",
                                   !.code = IF kind = "list" THEN None ELSE t,
                                   !.req = IF kind = "send" THEN r ELSE None,
                                   !.always = UsableNow, !.ever = UsableNow]]
    BY DEF Receive
  <1> DEFINE pc == CASE kind = "send" -> "findExisting"
                     [] kind = "list" -> "findAccesses"
                     [] OTHER -> "findTemplate"
             code == IF kind = "list" THEN None ELSE t
             req == IF kind = "send" THEN r ELSE None
  <1>2. /\ pc \in {"findExisting", "findAccesses", "findTemplate"}
        /\ pc = "findExisting" => kind = "send"
        /\ pc = "findTemplate" => kind # "list"
        /\ code \in Templates \cup {None} /\ req \in Requests \cup {None}
        /\ kind = "send" => req \in Requests
        /\ kind # "list" => code \in Templates
    BY DEF Kinds
  <1> HIDE DEF pc, code, req
  <1>3. /\ DOMAIN call' = Calls /\ \A d \in Calls \ {c} : call'[d] = call[d]
        /\ call'[c] = [IdleCall EXCEPT
                         !.kind = kind, !.pc = pc, !.code = code, !.req = req,
                         !.always = UsableNow, !.ever = UsableNow]
    BY <1>1 DEF pc, code, req, CallsInv
  <1>4. /\ call'[c].kind = kind /\ call'[c].pc = pc /\ call'[c].req = req
        /\ call'[c].code = code /\ call'[c].answer = NoAnswer
        /\ call'[c].always = UsableNow /\ call'[c].ever = UsableNow
    BY <1>3 DEF IdleCall
  <1>5. call'[c] \in CallRecord
    <2>1. /\ UsableNow \in SUBSET Templates /\ NoAnswer \in AnswerRecord /\ pc \in CallPc
          /\ "list" \in Kinds /\ "idle" \in CallPc
      BY <1>2, Answers DEF UsableNow, CallPc, ReadingPcs, Kinds
    <2>2. IdleCall \in CallRecord
      BY <2>1 DEF IdleCall, CallRecord
    <2>3. [IdleCall EXCEPT !.kind = kind, !.pc = pc, !.code = code] \in CallRecord
      BY <1>2, <2>1, <2>2 DEF CallRecord
    <2> QED BY <1>2, <1>3, <2>1, <2>3 DEF CallRecord
  <1>6. CallShape(c)'
    BY <1>2, <1>4, <1>5 DEF CallShape, Sending
  <1>7. \A r2 \in Requests : row'[r2].by # c
    <2>1. row' = row
      BY DEF Receive, contentVars
    <2> QED BY <2>1 DEF Receive, At, CallsInv, CallOk, CallFollows
  <1>8. CallFollows(c)' /\ AnswerTrue(c)'
    BY <1>2, <1>4, <1>7 DEF CallFollows, AnswerTrue
  <1> QED BY <1>3, <1>6, <1>8 DEF CallMoved, CallOk

\* A call that was granted its template is answered, or goes on to its variables.
LEMMA GrantedMoves ==
    ASSUME CallsInv, NEW c \in Calls, UNCHANGED row,
           call[c].pc \in {"findTemplate", "findAccess"}, Granted(c)
    PROVE  CallMoved(c)
  <1>1. /\ CallOk(c) /\ call[c] \in CallRecord /\ call[c].code \in Templates
        /\ call[c].kind \in Kinds \ {"list"}
    BY CallTyping DEF CallsInv, CallOk, CallShape
  <1>2. CASE call[c].kind = "template"
    <2>1. PICK t \in Templates : t = call[c].code
      BY <1>1
    <2>2. Done(c, Answer(200, "none"), {t})
      BY <1>2, <2>1 DEF Granted
    <2>3. {t} \in SUBSET Templates
      OBVIOUS
    <2> QED BY <2>2, <2>3, Answered
  <1>3. CASE call[c].kind # "template"
    <2>1. call' = [call EXCEPT ![c].pc = "findVariables", ![c].served = {call[c].code},
                               ![c].always = {}, ![c].ever = {}, ![c].edited = 0]
      BY <1>3 DEF Granted
    <2>2. /\ DOMAIN call' = Calls /\ \A d \in Calls \ {c} : call'[d] = call[d]
          /\ call'[c] = [call[c] EXCEPT !.pc = "findVariables", !.served = {call[c].code},
                                        !.always = {}, !.ever = {}, !.edited = 0]
      BY <2>1 DEF CallsInv
    <2>3. /\ call'[c].pc = "findVariables" /\ call'[c].kind = call[c].kind
          /\ call'[c].code = call[c].code /\ call'[c].req = call[c].req
          /\ call'[c].answer = call[c].answer /\ call'[c].always = {} /\ call'[c].ever = {}
      BY <1>1, <2>2 DEF CallRecord
    <2>4. call'[c] \in CallRecord
      <3>1. "findVariables" \in CallPc /\ {call[c].code} \in SUBSET Templates
        BY <1>1 DEF CallPc
      <3>2. PICK found \in CallRecord :
               found = [call[c] EXCEPT !.pc = "findVariables", !.served = {call[c].code}]
        BY <1>1, <3>1 DEF CallRecord
      <3>3. [found EXCEPT !.always = {}, !.ever = {}, !.edited = 0] \in CallRecord
        BY DEF CallRecord
      <3>4. call'[c] = [found EXCEPT !.always = {}, !.ever = {}, !.edited = 0]
        BY <2>2, <3>2
      <3> QED BY <3>3, <3>4
    <2>5. call[c].kind \in {"variables", "send"}
      BY <1>1, <1>3 DEF Kinds
    <2>6. CallOk(c)'
      BY <1>1, <2>3, <2>4, <2>5, EarlyOk
    <2> QED BY <2>2, <2>6 DEF CallMoved
  <1> QED BY <1>2, <1>3

\* A call that goes on to another reading step.
LEMMA GoesOnReading ==
    ASSUME CallsInv, NEW c \in Calls, UNCHANGED row,
           call[c].pc \notin {"publish", "markQueued", "done"},
           NEW pc \in {"findTemplate", "findAccess"}, call[c].kind # "list", Goto(c, pc)
    PROVE  CallMoved(c)
  <1>1. CallOk(c)
    BY DEF CallsInv
  <1>2. pc \in CallPc
    BY DEF CallPc, ReadingPcs
  <1>3. call[c].always \subseteq call[c].ever
    BY <1>1 DEF CallOk, CallShape
  <1>4. CallOk(c)'
    BY <1>1, <1>2, <1>3, GoesOn, EarlyOk DEF ReadingPcs
  <1> QED BY <1>2, <1>4, GoesOn DEF CallMoved

LEMMA NotFoundMoves ==
    ASSUME CallsInv, NEW c \in Calls, UNCHANGED row,
           call[c].pc \notin {"publish", "markQueued", "done"}, NotFound(c)
    PROVE  CallMoved(c)
  <1>1. PICK exception : exception = AppException("MSG_TEMPLATE_NOT_FOUND", 404)
    OBVIOUS
  <1>2. Resolve(exception) \in AnswerRecord /\ Resolve(exception).status = 404
    BY <1>1, Answers DEF Codes
  <1> QED BY <1>1, <1>2, Refused DEF NotFound

\* An answer from a stored request.
LEMMA StoredAnswered ==
    ASSUME DataInv, CallsInv, NEW c \in Calls, NEW C \in SUBSET Calls, RowsMove(C), EventsMove,
           NEW q \in Requests, q = call[c].req, Stored(q), wire[q] # {},
           NEW channel \in Channels, channel = row[q].channel,
           NEW t \in Templates, t = row[q].template,
           Done(c, OkAnswer(t, channel), {})
    PROVE  CallMoved(c)
  <1>1. /\ call'[c] = Finished(c, OkAnswer(t, channel), {}) /\ DOMAIN call' = Calls
        /\ \A d \in Calls \ {c} : call'[d] = call[d]
    BY DEF Done, CallsInv
  <1>2. PICK a \in AnswerRecord : /\ a = OkAnswer(t, channel) /\ a.status = 201
                                  /\ a.template = t /\ a.channel = channel
    BY Answers
  <1>3. row[q].sent.template = t /\ row[q].sent.channel = channel
    BY RowColumns DEF DataInv
  <1>4. Stored(q)' /\ row'[q].sent = row[q].sent /\ wire'[q] # {}
    BY ColumnsStay DEF DataInv, EventsMove
  <1>5. CallOk(c) /\ {} \in SUBSET Templates
    BY DEF CallsInv
  <1>6. call'[c] = Finished(c, a, {})
    BY <1>1, <1>2
  <1>7. \A p \in Requests : p = call[c].req =>
           /\ wire'[p] # {}
           /\ a.template = row'[p].sent.template
           /\ a.channel = row'[p].sent.channel
    BY <1>2, <1>3, <1>4
  <1>8. a.status \notin {400, 404, 503}
    BY <1>2
  <1>9. CallOk(c)'
    BY <1>5, <1>6, <1>7, <1>8, EndingOk
  <1> QED BY <1>1, <1>9 DEF CallMoved

\* Every reading step moves its call alone, to where it should be.
LEMMA ReadsMove ==
    ASSUME DataInv, CallsInv, NEW c \in Calls, Reads(c)
    PROVE  UNCHANGED contentVars /\ CallMoved(c)
  <1>1. UNCHANGED contentVars
    BY DEF Reads, Receive, RefuseBody, FindTemplate, FindAccess, FindAccesses, FindAvailable,
           FindExisting, FindVariables
  <1> SUFFICES CallMoved(c)
    BY <1>1
  <1>2. UNCHANGED row
    BY <1>1 DEF contentVars
  <1>3. CallOk(c) /\ CallShape(c) /\ call[c] \in CallRecord
    BY DEF CallsInv, CallOk, CallShape
  <1>4. CASE Receive(c)
    BY <1>4, ReceiveMoves
  <1>5. CASE RefuseBody(c)
    <2>1. PICK exception : exception = HttpException(400)
      OBVIOUS
    <2>2. Resolve(exception) \in AnswerRecord /\ Resolve(exception).status = 400
      BY <2>1, Answers DEF Resolve, HttpException, Answer
    <2>3. Throws(c, exception) /\ call[c].pc = "findExisting"
      BY <1>5, <2>1 DEF RefuseBody, At
    <2> QED BY <1>2, <2>2, <2>3, Refused
  <1>6. CASE FindTemplate(c)
    <2>1. call[c].pc = "findTemplate" /\ call[c].kind # "list"
      BY <1>3, <1>6 DEF FindTemplate, At, CallShape
    <2>2. NotFound(c) \/ Granted(c) \/ Goto(c, "findAccess")
      BY <1>6 DEF FindTemplate
    <2> QED BY <1>2, <2>1, <2>2, NotFoundMoves, GrantedMoves, GoesOnReading
  <1>7. CASE FindAccess(c)
    <2>1. call[c].pc = "findAccess"
      BY <1>7 DEF FindAccess, At
    <2>2. NotFound(c) \/ Granted(c)
      BY <1>7 DEF FindAccess
    <2> QED BY <1>2, <2>1, <2>2, NotFoundMoves, GrantedMoves
  <1>8. CASE FindAccesses(c)
    <2>1. PICK accesses \in SUBSET Templates : accesses = Accesses(table)
      BY DEF Accesses
    <2>2. /\ DOMAIN call' = Calls /\ \A d \in Calls \ {c} : call'[d] = call[d]
          /\ call'[c] = [call[c] EXCEPT !.pc = "findAvailable", !.accesses = accesses]
      BY <1>8, <2>1 DEF FindAccesses, CallsInv
    <2>3. "findAvailable" \in CallPc
      BY DEF CallPc, ReadingPcs
    <2>4. /\ call'[c] \in CallRecord /\ call'[c].pc = "findAvailable"
          /\ call'[c].kind = call[c].kind /\ call'[c].code = call[c].code
          /\ call'[c].req = call[c].req /\ call'[c].answer = call[c].answer
          /\ call'[c].always = call[c].always /\ call'[c].ever = call[c].ever
      BY <1>3, <2>2, <2>3 DEF CallRecord
    <2>5. call[c].pc = "findAccesses" /\ call[c].always \subseteq call[c].ever
      BY <1>3, <1>8 DEF FindAccesses, At, CallShape
    <2>6. CallOk(c)'
      BY <1>2, <1>3, <2>4, <2>5, EarlyOk DEF ReadingPcs
    <2> QED BY <2>2, <2>6 DEF CallMoved
  <1>9. CASE FindAvailable(c)
    <2>1. PICK served \in SUBSET Templates : served = Available(table, call[c].accesses)
      BY DEF Available
    <2> QED BY <1>2, <1>9, <2>1, Answered DEF FindAvailable
  <1>10. CASE FindExisting(c)
    <2>1. /\ call[c].pc = "findExisting" /\ call[c].kind = "send"
          /\ call[c].req \in Requests /\ call[c].always \subseteq call[c].ever
      BY <1>3, <1>10 DEF FindExisting, At, CallShape, Sending
    <2>2. PICK q \in Requests : q = call[c].req
      BY <2>1
    <2>3. CASE row[q].status = "ABSENT"
      <3>1. Goto(c, "findTemplate")
        BY <1>10, <2>2, <2>3 DEF FindExisting
      <3> QED BY <1>2, <2>1, <3>1, GoesOnReading
    <2>4. CASE row[q].status = "VALIDATED"
      <3>1. Goto(c, "republish") /\ "republish" \in CallPc
        BY <1>10, <2>2, <2>4 DEF FindExisting, CallPc
      <3>2. /\ call'[c] = [call[c] EXCEPT !.pc = "republish"] /\ DOMAIN call' = Calls
            /\ \A d \in Calls \ {c} : call'[d] = call[d]
            /\ call'[c] \in CallRecord /\ call'[c].pc = "republish"
            /\ call'[c].kind = call[c].kind /\ call'[c].code = call[c].code
            /\ call'[c].req = call[c].req /\ call'[c].answer = call[c].answer
            /\ call'[c].always = call[c].always /\ call'[c].ever = call[c].ever
        BY <3>1, GoesOn
      <3>3. row' = row /\ (\A r \in Requests : row[r].by # c) /\ call[c].answer.status = 0
        BY <1>2, <1>3, <2>1 DEF CallOk, CallFollows, CallShape, NoAnswer, Answer
      <3>4. CallShape(c)'
        BY <1>3, <2>1, <3>2 DEF CallShape, Sending
      <3>5. CallFollows(c)' /\ AnswerTrue(c)'
        BY <2>2, <2>4, <3>2, <3>3 DEF CallFollows, AnswerTrue, Stored
      <3> QED BY <3>2, <3>4, <3>5 DEF CallMoved, CallOk
    <2>5. CASE row[q].status = "QUEUED"
      <3>1. Stored(q) /\ wire[q] # {} /\ row[q].channel \in Channels /\ row[q].template \in Templates
        BY <2>5, RowColumns DEF DataInv, EventsFollow, Stored
      <3>2. PICK channel \in Channels : channel = row[q].channel
        BY <3>1
      <3>3. PICK t \in Templates : t = row[q].template
        BY <3>1
      <3>4. Done(c, OkAnswer(t, channel), {})
        BY <1>10, <2>2, <2>5, <3>2, <3>3 DEF FindExisting
      <3>5. RowsMove({c}) /\ EventsMove
        BY <1>1, ContentKept
      <3> QED BY <2>2, <3>1, <3>2, <3>3, <3>4, <3>5, StoredAnswered
    <2>6. row[q].status \in {"ABSENT", "VALIDATED", "QUEUED"}
      BY RowColumns DEF DataInv, Stored
    <2> QED BY <2>3, <2>4, <2>5, <2>6
  <1>11. CASE FindVariables(c)
    <2>1. call[c].pc = "findVariables" /\ call[c].kind \in {"variables", "send"}
      BY <1>3, <1>11 DEF FindVariables, At, CallShape
    <2>2. CASE call[c].kind = "variables"
      <3>1. Done(c, Answer(200, "none"), {}) /\ {} \in SUBSET Templates
        BY <1>11, <2>2 DEF FindVariables
      <3> QED BY <1>2, <3>1, Answered
    <2>3. CASE Throws(c, AppException("MSG_INVALID_VARIABLES", 400))
      <3>1. PICK exception : exception = AppException("MSG_INVALID_VARIABLES", 400)
        OBVIOUS
      <3>2. Resolve(exception) \in AnswerRecord /\ Resolve(exception).status = 400
        BY <3>1, Answers DEF Codes
      <3> QED BY <1>2, <2>1, <2>3, <3>1, <3>2, Refused
    <2>4. CASE /\ call[c].kind = "send"
               /\ call' = [call EXCEPT ![c].pc = "commit", ![c].served = {}]
      <3>1. /\ DOMAIN call' = Calls /\ \A d \in Calls \ {c} : call'[d] = call[d]
            /\ call'[c] = [call[c] EXCEPT !.pc = "commit", !.served = {}]
        BY <2>4 DEF CallsInv
      <3>2. "commit" \in CallPc /\ {} \in SUBSET Templates
        BY DEF CallPc
      <3>3. /\ call'[c] \in CallRecord /\ call'[c].pc = "commit"
            /\ call'[c].kind = call[c].kind /\ call'[c].code = call[c].code
            /\ call'[c].req = call[c].req /\ call'[c].answer = call[c].answer
            /\ call'[c].always = call[c].always /\ call'[c].ever = call[c].ever
        BY <1>3, <3>1, <3>2 DEF CallRecord
      <3>4. call[c].always \subseteq call[c].ever
        BY <1>3 DEF CallShape
      <3>5. CallOk(c)'
        BY <1>2, <1>3, <2>1, <2>4, <3>3, <3>4, EarlyOk
      <3> QED BY <3>1, <3>5 DEF CallMoved
    <2> QED BY <1>11, <2>1, <2>2, <2>3, <2>4 DEF FindVariables
  <1> QED BY <1>4, <1>5, <1>6, <1>7, <1>8, <1>9, <1>10, <1>11 DEF Reads

-----------------------------------------------------------------------------
(***************************************************************************)
(* The transaction, the events and the saves.                              *)
(***************************************************************************)
LEMMA InsertMoves ==
    ASSUME DataInv, NEW c \in Calls, At(c, "commit"), call[c].code \in Templates,
           NEW q \in Requests, q = call[c].req, ~Stored(q),
           NEW channel \in Channels, InsertRows(c, channel)
    PROVE  RowsMove({c}) /\ Stored(q)' /\ row'[q].channel = channel
  <1>1. PICK input \in Inputs, own \in Channels \cup {None} :
           /\ Fits(input.variables, input.document)
           /\ row' = [row EXCEPT ![q] = NewRow(c, input, channel, own)]
    BY DEF InsertRows
  <1>2. PICK k \in EncryptionKeys : k = key["gateway"]
    BY DEF DataInv
  <1>3. NewRow(c, input, channel, own) = RowOf("VALIDATED", c, call[c].code, channel, input, k)
    BY <1>2 DEF NewRow, RowOf, MetadataChannel
  <1>4. /\ DOMAIN row' = DOMAIN row
        /\ row'[q] = RowOf("VALIDATED", c, call[c].code, channel, input, k)
        /\ \A r \in Requests \ {q} : row'[r] = row[r]
    BY <1>1, <1>3 DEF DataInv, RowsInserted
  <1>5. RowInserted(c, q)
    BY <1>1, <1>4 DEF RowInserted
  <1>6. RowsMove({c})
    BY <1>4, <1>5 DEF RowsMove, RowKept
  <1> QED BY <1>4, <1>6 DEF RowOf, Stored

LEMMA QueuedMoves ==
    ASSUME DataInv, NEW C \in SUBSET Calls, NEW q \in Requests, Stored(q), wire[q] # {},
           row' = Queued(q)
    PROVE  RowsMove(C)
  <1>1. /\ DOMAIN row' = DOMAIN row
        /\ row'[q] = [row[q] EXCEPT !.status = "QUEUED"]
        /\ \A r \in Requests \ {q} : row'[r] = row[r]
    BY DEF Queued, DataInv, RowsInserted
  <1> QED BY <1>1 DEF RowsMove, RowKept, RowQueued

LEMMA SentMoves ==
    ASSUME DataInv, NEW q \in Requests, Stored(q), Send(q, row[q].event), UNCHANGED handled
    PROVE  EventsMove /\ wire'[q] # {}
  <1>1. /\ DOMAIN wire' = DOMAIN wire /\ wire'[q] = wire[q] \cup {row[q].event}
        /\ \A r \in Requests \ {q} : wire'[r] = wire[r]
    BY DEF Send, DataInv, EventsFollow
  <1> QED BY <1>1 DEF EventsMove

LEMMA RowsKept ==
    ASSUME NEW C \in SUBSET Calls, UNCHANGED row
    PROVE  RowsMove(C)
  BY DEF RowsMove, RowKept

LEMMA EventsKept ==
    ASSUME UNCHANGED <<wire, handled>>
    PROVE  EventsMove
  BY DEF EventsMove

\* Where a call is that stores and sends.
LEMMA SendingCall ==
    ASSUME CallsInv, NEW c \in Calls, call[c].pc \in Sending
    PROVE  /\ CallOk(c) /\ call[c] \in CallRecord /\ call[c].kind = "send"
           /\ call[c].req \in Requests /\ call[c].code \in Templates
           /\ call[c].answer = NoAnswer
  BY DEF CallsInv, CallOk, CallShape, Sending

\* What a call that stores or sends does, unless it fails.
Writes(c) ==
    \/ Commit(c) \/ CommitWithoutReceiver(c) \/ CommitConflict(c)
    \/ Publish(c) \/ MarkQueued(c) \/ Republish(c) \/ MarkRequeued(c)

LEMMA OtherErrorMoves ==
    ASSUME CallsInv, NEW c \in Calls, UNCHANGED row,
           call[c].pc \notin {"publish", "markQueued", "done"}, Throws(c, OtherError)
    PROVE  CallMoved(c)
  <1>1. PICK exception : exception = OtherError
    OBVIOUS
  <1>2. Resolve(exception) \in AnswerRecord /\ Resolve(exception).status = 500
    BY <1>1, Answers
  <1> QED BY <1>1, <1>2, Refused

\* The steps that have stored or sent something, and the call goes on.
LEMMA LateMoves ==
    ASSUME CallsInv, NEW c \in Calls, call[c].pc \in Sending,
           NEW q \in Requests, q = call[c].req,
           NEW pc \in {"publish", "markQueued", "republish", "markRequeued"},
           NEW channel \in Channels \cup {None},
           call' = [call EXCEPT ![c].pc = pc, ![c].channel = channel],
           Stored(q)',
           pc \in {"markQueued", "markRequeued"} => wire'[q] # {},
           pc \in {"publish", "markQueued"} => channel = row'[q].channel,
           \A r \in Requests : row'[r].by = c => pc \in {"publish", "markQueued"}
    PROVE  CallMoved(c)
  <1>1. /\ DOMAIN call' = Calls /\ \A d \in Calls \ {c} : call'[d] = call[d]
        /\ call'[c] = [call[c] EXCEPT !.pc = pc, !.channel = channel]
    BY DEF CallsInv
  <1>2. CallOk(c) /\ call[c].kind = "send" /\ call[c].pc # "done"
    BY SendingCall DEF Sending
  <1>3. CallOk(c)'
    BY <1>1, <1>2, LateOk
  <1> QED BY <1>1, <1>3 DEF CallMoved

LEMMA WritesMove ==
    ASSUME DataInv, CallsInv, NEW c \in Calls, Writes(c)
    PROVE  RowsMove({c}) /\ EventsMove /\ CallMoved(c)
  <1>1. call[c].pc \in Sending
    BY DEF Writes, Commit, CommitWithoutReceiver, CommitConflict, Publish, MarkQueued,
           Republish, MarkRequeued, At, Sending
  <1>2. /\ CallOk(c) /\ call[c] \in CallRecord /\ call[c].kind = "send"
        /\ call[c].req \in Requests /\ call[c].code \in Templates
    BY <1>1, SendingCall
  <1>3. PICK q \in Requests : q = call[c].req
    BY <1>2
  <1>4. CASE Commit(c)
    <2>1. PICK channel \in Channels :
             /\ InsertRows(c, channel)
             /\ call' = [call EXCEPT ![c].pc = "publish", ![c].channel = channel]
      BY <1>4 DEF Commit
    <2>2. At(c, "commit") /\ ~Stored(q) /\ UNCHANGED <<wire, handled>>
      BY <1>3, <1>4 DEF Commit
    <2>3. RowsMove({c}) /\ Stored(q)' /\ row'[q].channel = channel
      BY <1>2, <1>3, <2>1, <2>2, InsertMoves
    <2>4. CallMoved(c)
      BY <1>1, <1>3, <2>1, <2>3, LateMoves
    <2> QED BY <2>2, <2>3, <2>4, EventsKept
  <1>5. CASE CommitWithoutReceiver(c) \/ CommitConflict(c)
    <2>1. /\ UNCHANGED row /\ UNCHANGED contentVars /\ call[c].pc = "commit"
          /\ Throws(c, OtherError)
      BY <1>5 DEF CommitWithoutReceiver, CommitConflict, At, contentVars
    <2> QED BY <2>1, ContentKept, OtherErrorMoves
  <1>6. CASE Publish(c)
    <2>1. /\ Send(q, row[q].event) /\ Goto(c, "markQueued") /\ UNCHANGED row
          /\ UNCHANGED handled /\ call[c].pc = "publish"
      BY <1>3, <1>6 DEF Publish, At
    <2>2. Stored(q) /\ call[c].channel = row[q].channel
      BY <1>2, <1>3, <2>1 DEF CallOk, CallFollows
    <2>3. RowsMove({c}) /\ EventsMove /\ wire'[q] # {}
      BY <2>1, <2>2, RowsKept, SentMoves
    <2>4. PICK channel \in Channels \cup {None} : channel = call[c].channel
      BY <1>2, CallTyping DEF CallRecord
    <2>5. call' = [call EXCEPT ![c].pc = "markQueued", ![c].channel = channel]
      BY <1>2, <2>1, <2>4 DEF Goto, CallsInv, CallRecord
    <2>6. CallMoved(c)
      BY <1>1, <1>3, <2>1, <2>2, <2>3, <2>4, <2>5, LateMoves DEF Stored
    <2> QED BY <2>3, <2>6
  <1>7. CASE Republish(c)
    <2>1. /\ Send(q, StoredEvent(q)) /\ Goto(c, "markRequeued") /\ UNCHANGED row
          /\ UNCHANGED handled /\ call[c].pc = "republish"
      BY <1>3, <1>7 DEF Republish, At
    <2>2. Stored(q) /\ \A r \in Requests : row[r].by # c
      BY <1>2, <1>3, <2>1 DEF CallOk, CallFollows
    <2>3. StoredEvent(q) = row[q].event
      BY <2>2, RowColumns DEF DataInv
    <2>4. RowsMove({c}) /\ EventsMove /\ wire'[q] # {}
      BY <2>1, <2>2, <2>3, RowsKept, SentMoves
    <2>5. PICK channel \in Channels \cup {None} : channel = call[c].channel
      BY <1>2, CallTyping DEF CallRecord
    <2>6. call' = [call EXCEPT ![c].pc = "markRequeued", ![c].channel = channel]
      BY <1>2, <2>1, <2>5 DEF Goto, CallsInv, CallRecord
    <2>7. CallMoved(c)
      BY <1>1, <1>3, <2>1, <2>2, <2>4, <2>5, <2>6, LateMoves DEF Stored
    <2> QED BY <2>4, <2>7
  <1>8. CASE MarkQueued(c) \/ MarkRequeued(c)
    <2>1. /\ row' = Queued(q) /\ UNCHANGED <<wire, handled>>
          /\ call[c].pc \in {"markQueued", "markRequeued"}
      BY <1>3, <1>8 DEF MarkQueued, MarkRequeued, At
    <2>2. /\ Stored(q) /\ wire[q] # {}
          /\ call[c].pc = "markQueued" => call[c].channel = row[q].channel
      BY <1>2, <1>3, <2>1 DEF CallOk, CallFollows
    <2>3. RowsMove({c}) /\ EventsMove
      BY <2>1, <2>2, QueuedMoves, EventsKept
    <2>4. row[q].channel \in Channels /\ row[q].template \in Templates
      BY <2>2, RowColumns DEF DataInv
    <2>5. PICK channel \in Channels : channel = row[q].channel
      BY <2>4
    <2>6. PICK t \in Templates : t = row[q].template
      BY <2>4
    <2>7. Done(c, OkAnswer(t, channel), {})
      BY <1>3, <1>8, <2>2, <2>5, <2>6 DEF MarkQueued, MarkRequeued, At
    <2>8. CallMoved(c)
      BY <1>3, <2>2, <2>3, <2>5, <2>6, <2>7, StoredAnswered
    <2> QED BY <2>3, <2>8
  <1> QED BY <1>4, <1>5, <1>6, <1>7, <1>8 DEF Writes

LEMMA FailsMove ==
    ASSUME DataInv, CallsInv, NEW c \in Calls, CallFails(c)
    PROVE  RowsMove({c}) /\ EventsMove /\ CallMoved(c)
  <1> DEFINE late == call[c].pc \in {"publish", "markQueued", "republish"}
             failed == IF late THEN AppException("MSG_KAFKA_PUBLISH_FAILED", 503)
                       ELSE OtherError
  <1>1. CallOk(c) /\ UNCHANGED handled /\ Throws(c, failed)
    BY DEF CallFails, CallsInv
  <1>2. call[c].pc \in Sending \ {"findExisting"} =>
           /\ call[c].req \in Requests /\ call[c].code \in Templates
           /\ call[c].pc # "commit" => Stored(call[c].req)
           /\ call[c].pc \in {"markQueued", "markRequeued"} => wire[call[c].req] # {}
    BY <1>1, SendingCall DEF CallOk, CallFollows, Sending
  <1>3. RowsMove({c}) /\ EventsMove
    <2>1. CASE UNCHANGED <<row, wire>>
      BY <1>1, <2>1, RowsKept, EventsKept
    <2>2. CASE /\ At(c, "commit") /\ ~Stored(call[c].req) /\ UNCHANGED wire
               /\ \E channel \in Channels : InsertRows(c, channel)
      <3>1. PICK q \in Requests : q = call[c].req
        BY <1>2, <2>2 DEF At, Sending
      <3>2. call[c].code \in Templates
        BY <1>2, <2>2 DEF At, Sending
      <3>3. PICK channel \in Channels : InsertRows(c, channel)
        BY <2>2
      <3>4. RowsMove({c})
        BY <2>2, <3>1, <3>2, <3>3, InsertMoves
      <3> QED BY <1>1, <2>2, <3>4, EventsKept
    <2>3. CASE /\ At(c, "publish") \/ At(c, "republish")
               /\ UNCHANGED row
               /\ \/ Send(call[c].req, row[call[c].req].event)
                  \/ Send(call[c].req, StoredEvent(call[c].req))
      <3>1. call[c].pc \in Sending \ {"findExisting"} /\ call[c].pc # "commit"
        BY <2>3 DEF At, Sending
      <3>2. PICK q \in Requests : q = call[c].req
        BY <1>2, <3>1
      <3>3. Stored(q)
        BY <1>2, <3>1, <3>2
      <3>4. StoredEvent(q) = row[q].event
        BY <3>3, RowColumns DEF DataInv
      <3>5. Send(q, row[q].event)
        BY <2>3, <3>2, <3>4
      <3> QED BY <1>1, <2>3, <3>3, <3>5, RowsKept, SentMoves
    <2>4. CASE /\ call[c].pc \in {"markQueued", "markRequeued"}
               /\ row' = Queued(call[c].req) /\ UNCHANGED wire
      <3>1. call[c].pc \in Sending \ {"findExisting"} /\ call[c].pc # "commit"
        BY <2>4 DEF Sending
      <3>2. PICK q \in Requests : q = call[c].req
        BY <1>2, <3>1
      <3>3. Stored(q) /\ wire[q] # {} /\ row' = Queued(q)
        BY <1>2, <2>4, <3>1, <3>2
      <3> QED BY <1>1, <2>4, <3>3, QueuedMoves, EventsKept
    <2> QED BY <2>1, <2>2, <2>3, <2>4 DEF CallFails
  <1>4. PICK a \in AnswerRecord : a = Resolve(failed) /\ a.status \in {500, 503}
                                  /\ (a.status = 503 => late)
    BY Answers DEF Codes
  <1>5. /\ call'[c] = Finished(c, a, {}) /\ DOMAIN call' = Calls
        /\ \A d \in Calls \ {c} : call'[d] = call[d]
    BY <1>1, <1>4 DEF Throws, Done, CallsInv
  <1>6. ASSUME NEW q \in Requests, q = call[c].req, a.status = 503 PROVE Stored(q)'
    <2>1. Stored(q)
      BY <1>2, <1>4, <1>6 DEF Sending
    <2> QED BY <1>3, <2>1, ColumnsStay DEF DataInv
  <1> HIDE DEF late, failed
  <1>7. CallOk(c)'
    <2>1. {} \in SUBSET Templates /\ a.status \notin {201, 400, 404}
      BY <1>4
    <2> QED BY <1>1, <1>5, <1>6, <2>1, EndingOk
  <1> QED BY <1>3, <1>5, <1>7 DEF CallMoved

\* The steps of the processes behind the gateway.
LEMMA OthersMove ==
    ASSUME DataInv, NEW r \in Requests, RelayPublishes(r) \/ RetryPublishes(r) \/ Handle(r)
    PROVE  RowsMove({}) /\ EventsMove /\ UNCHANGED call
  <1>1. CASE RelayPublishes(r) \/ RetryPublishes(r)
    <2>1. Stored(r)
      BY <1>1 DEF RelayPublishes, RetryPublishes, DataInv, EventsFollow
    <2>2. StoredEvent(r) = row[r].event
      BY <2>1, RowColumns DEF DataInv
    <2>3. Send(r, row[r].event) /\ UNCHANGED <<call, row, handled>>
      BY <1>1, <2>2 DEF RelayPublishes, RetryPublishes
    <2> QED BY <2>1, <2>3, SentMoves, RowsKept
  <1>2. CASE Handle(r)
    <2>1. PICK event \in wire[r] : handled' = [handled EXCEPT ![r] = @ \cup {Opened(event)}]
      BY <1>2 DEF Handle
    <2>2. /\ DOMAIN handled' = DOMAIN handled
          /\ handled'[r] = handled[r] \cup {Opened(event)}
          /\ \A q \in Requests \ {r} : handled'[q] = handled[q]
      BY <2>1 DEF DataInv, EventsFollow
    <2>3. UNCHANGED <<call, row, wire>>
      BY <1>2 DEF Handle
    <2>4. EventsMove
      BY <2>2, <2>3 DEF EventsMove
    <2> QED BY <2>3, <2>4, RowsKept
  <1> QED BY <1>1, <1>2

\* A restart of the gateway ends the calls under way without an answer.
LEMMA RestartMoves ==
    ASSUME DataInv, CallsInv, NEW app \in {"gateway", "worker"}, Restart(app)
    PROVE  /\ UNCHANGED <<row, wire, handled>>
           /\ key' \in [{"gateway", "worker"} -> EncryptionKeys]
           /\ CallsInv'
  <1>1. /\ UNCHANGED <<row, wire, handled>>
        /\ key' \in [{"gateway", "worker"} -> EncryptionKeys]
        /\ call' = [c \in Calls |->
                      IF app = "gateway" /\ call[c].pc \notin {"idle", "done"}
                        THEN Finished(c, NoAnswer, {}) ELSE call[c]]
    BY DEF Restart, DataInv
  <1>2. ASSUME NEW c \in Calls PROVE CallOk(c)'
    <2>1. CallOk(c)
      BY DEF CallsInv
    <2>2. CASE call'[c] = Finished(c, NoAnswer, {})
      <3>1. {} \in SUBSET Templates /\ NoAnswer \in AnswerRecord /\ NoAnswer.status = 0
        BY Answers
      <3> QED BY <2>1, <2>2, <3>1, EndingOk
    <2>3. CASE call'[c] = call[c]
      <3>1. RowsMove({}) /\ EventsMove /\ c \notin {}
        BY <1>1, RowsKept, EventsKept
      <3> QED BY <2>1, <2>3, <3>1, RestingOk
    <2> QED BY <1>1, <2>2, <2>3
  <1> QED BY <1>1, <1>2 DEF CallsInv

-----------------------------------------------------------------------------
(***************************************************************************)
(* The reading of the template tables.  What a call has seen so far still  *)
(* agrees with the tables, as long as they have changed at most once.      *)
(***************************************************************************)

\* Of a listing, whose first query is done.
ListingOk(c) ==
    LET available == Available(table, call[c].accesses) IN
    /\ call[c].edited = 0 => call[c].accesses = Accesses(table)
    /\ call[c].edited <= 1 =>
          call[c].always \subseteq available /\ available \subseteq call[c].ever

\* Of the lookup of a template that was active and not PUBLIC.
LookupOk(c) ==
    LET template == table[call[c].code] IN
    /\ call[c].edited = 0 => template.active /\ template.scope # "PUBLIC"
    /\ call[c].edited <= 1 =>
         /\ template.allowed => call[c].code \in call[c].ever
         /\ call[c].code \in call[c].always => template.allowed

ReadOk(c) ==
    /\ call[c].pc \in ReadingPcs \cup {"findExisting"} =>
          call[c].always \subseteq UsableNow /\ UsableNow \subseteq call[c].ever
    /\ call[c].pc = "findAvailable" => ListingOk(c)
    /\ call[c].pc = "findAccess" => LookupOk(c)

\* The inductive invariant of MessageContent.
ContentInv ==
    /\ table \in [Templates -> TemplateRow]
    /\ faults \in 0..MaxFaults
    /\ DataInv
    /\ CallsInv
    /\ \A c \in Calls : ReadOk(c)

\* As long as the tables and the call are what they were.
LEMMA ReadRests ==
    ASSUME NEW c \in Calls, ReadOk(c), call'[c] = call[c], UNCHANGED table
    PROVE  ReadOk(c)'
  BY DEF ReadOk, ListingOk, LookupOk, UsableNow, Usable, Available, Accesses

\* A call that is not between two reads.
LEMMA ReadElsewhere ==
    ASSUME NEW c \in Calls, call'[c].pc \notin ReadingPcs \cup {"findExisting"}
    PROVE  ReadOk(c)'
  BY DEF ReadOk, ReadingPcs

\* Where the ways a handler goes on, or ends, leave its call.
LEMMA WhereCallsGo ==
    ASSUME CallsInv, NEW c \in Calls
    PROVE  /\ \A a, served : Done(c, a, served) => call'[c].pc = "done"
           /\ \A exception : Throws(c, exception) => call'[c].pc = "done"
           /\ \A pc : Goto(c, pc) => call'[c].pc = pc
           /\ Granted(c) => call'[c].pc \in {"done", "findVariables"}
           /\ NotFound(c) => call'[c].pc = "done"
  <1>1. DOMAIN call = Calls /\ call[c] \in CallRecord
    BY DEF CallsInv, CallOk, CallShape
  <1>2. \A a, served : Done(c, a, served) => call'[c].pc = "done"
    BY <1>1 DEF Done, Finished, IdleCall
  <1>3. \A exception : Throws(c, exception) => call'[c].pc = "done"
    BY <1>2 DEF Throws
  <1>4. \A pc : Goto(c, pc) => call'[c].pc = pc
    BY <1>1 DEF Goto, CallRecord
  <1>5. Granted(c) => call'[c].pc \in {"done", "findVariables"}
    <2>1. CASE call[c].kind = "template"
      BY <1>2, <2>1 DEF Granted
    <2>2. CASE call[c].kind # "template"
      <3>1. Granted(c) =>
               call'[c] = [call[c] EXCEPT !.pc = "findVariables", !.served = {call[c].code},
                                          !.always = {}, !.ever = {}, !.edited = 0]
        BY <1>1, <2>2 DEF Granted
      <3>2. [call[c] EXCEPT !.pc = "findVariables", !.served = {call[c].code},
                            !.always = {}, !.ever = {}, !.edited = 0].pc = "findVariables"
        BY <1>1 DEF CallRecord
      <3> QED BY <3>1, <3>2
    <2> QED BY <2>1, <2>2
  <1> QED BY <1>2, <1>3, <1>4, <1>5 DEF NotFound

\* What a step of the call makes of the reading, while the tables rest.
LEMMA ReadMoves ==
    ASSUME DataInv, CallsInv, NEW c \in Calls, ReadOk(c), UNCHANGED table,
           Reads(c) \/ Writes(c) \/ CallFails(c)
    PROVE  ReadOk(c)'
  <1>1. DOMAIN call = Calls /\ call[c] \in CallRecord
    BY DEF CallsInv, CallOk, CallShape
  <1>2. CASE Receive(c)
    <2>1. /\ call'[c].always = UsableNow /\ call'[c].ever = UsableNow
          /\ call'[c].pc \in {"findExisting", "findAccesses", "findTemplate"}
      <3>1. PICK kind \in Kinds, t \in Templates, r \in Requests :
               call' = [call EXCEPT
                             ![c] = [IdleCall EXCEPT
                                       !.kind = kind,
                                       !.pc = CASE kind = "send" -> "findExisting"
                                                [] kind = "list" -> "findAccesses"
                                                [] OTHER -> "findTemplate",
                                       !.code = IF kind = "list" THEN None ELSE t,
                                       !.req = IF kind = "send" THEN r ELSE None,
                                       !.always = UsableNow, !.ever = UsableNow]]
        BY <1>2 DEF Receive
      <3>2. call'[c] = [IdleCall EXCEPT
                          !.kind = kind,
                          !.pc = CASE kind = "send" -> "findExisting"
                                   [] kind = "list" -> "findAccesses"
                                   [] OTHER -> "findTemplate",
                          !.code = IF kind = "list" THEN None ELSE t,
                          !.req = IF kind = "send" THEN r ELSE None,
                          !.always = UsableNow, !.ever = UsableNow]
        BY <1>1, <3>1
      <3>3. /\ call'[c].always = UsableNow /\ call'[c].ever = UsableNow
            /\ call'[c].pc = CASE kind = "send" -> "findExisting"
                               [] kind = "list" -> "findAccesses"
                               [] OTHER -> "findTemplate"
        BY <3>2 DEF IdleCall
      <3> QED BY <3>3
    <2>2. UsableNow' = UsableNow
      BY DEF UsableNow, Usable
    <2> QED BY <2>1, <2>2 DEF ReadOk
  <1>3. CASE Goto(c, "findTemplate") /\ FindExisting(c)
    <2>1. /\ call'[c].pc = "findTemplate" /\ call'[c].always = call[c].always
          /\ call'[c].ever = call[c].ever /\ call[c].pc = "findExisting"
      BY <1>1, <1>3 DEF Goto, FindExisting, At, CallRecord
    <2>2. UsableNow' = UsableNow
      BY DEF UsableNow, Usable
    <2> QED BY <2>1, <2>2 DEF ReadOk
  <1>4. CASE Goto(c, "findAccess") /\ FindTemplate(c)
    <2>1. /\ call'[c].pc = "findAccess" /\ call'[c].always = call[c].always
          /\ call'[c].ever = call[c].ever /\ call[c].pc = "findTemplate"
          /\ call'[c].code = call[c].code
      BY <1>1, <1>4 DEF Goto, FindTemplate, At, CallRecord
    <2>2. UsableNow' = UsableNow
      BY DEF UsableNow, Usable
    <2>3. call[c].code \in Templates
      BY <2>1 DEF CallsInv, CallOk, CallShape
    <2>4. table[call[c].code].active /\ table[call[c].code].scope # "PUBLIC"
      <3>1. call'[c].pc # "done" /\ call'[c].pc # "findVariables"
        BY <2>1
      <3>2. ~NotFound(c) /\ ~Granted(c)
        BY <3>1, WhereCallsGo
      <3> QED BY <1>4, <3>2 DEF FindTemplate
    <2>5. /\ call[c].code \in UsableNow <=> table[call[c].code].allowed
      BY <2>3, <2>4 DEF UsableNow, Usable
    <2>6. LookupOk(c)'
      BY <2>1, <2>4, <2>5 DEF LookupOk, ReadOk, ReadingPcs
    <2> QED BY <2>1, <2>2, <2>6 DEF ReadOk, ReadingPcs
  <1>5. CASE FindAccesses(c)
    <2>1. call'[c] = [call[c] EXCEPT !.pc = "findAvailable", !.accesses = Accesses(table)]
      BY <1>1, <1>5 DEF FindAccesses
    <2>2. /\ call'[c].pc = "findAvailable" /\ call'[c].accesses = Accesses(table)
          /\ call'[c].always = call[c].always /\ call'[c].ever = call[c].ever
          /\ call[c].pc = "findAccesses"
      BY <1>1, <1>5, <2>1 DEF FindAccesses, At, CallRecord
    <2>3. UsableNow' = UsableNow /\ Accesses(table') = Accesses(table)
      BY DEF UsableNow, Usable, Accesses
    <2>4. Available(table, Accesses(table)) = UsableNow
      BY DEF Available, Accesses, UsableNow, Usable
    <2>5. call[c].always \subseteq UsableNow /\ UsableNow \subseteq call[c].ever
      BY <2>2 DEF ReadOk, ReadingPcs
    <2>6. ListingOk(c)'
      BY <2>2, <2>4, <2>5 DEF ListingOk
    <2> QED BY <2>2, <2>3, <2>5, <2>6 DEF ReadOk
  <1>6. CASE call'[c].pc \notin ReadingPcs \cup {"findExisting"}
    BY <1>6, ReadElsewhere
  <1>7. \/ Receive(c) \/ (Goto(c, "findTemplate") /\ FindExisting(c))
        \/ (Goto(c, "findAccess") /\ FindTemplate(c)) \/ FindAccesses(c)
        \/ call'[c].pc \notin ReadingPcs \cup {"findExisting"}
    <2>1. CASE FindTemplate(c) \/ FindAccess(c) \/ FindAvailable(c) \/ FindExisting(c)
      <3>1. \/ NotFound(c) \/ Granted(c) \/ (Goto(c, "findAccess") /\ FindTemplate(c))
            \/ \E a, served : Done(c, a, served)
            \/ (Goto(c, "findTemplate") /\ FindExisting(c)) \/ Goto(c, "republish")
        <4>1. CASE FindTemplate(c)
          BY <4>1 DEF FindTemplate
        <4>2. CASE FindAccess(c)
          BY <4>2 DEF FindAccess
        <4>3. CASE FindAvailable(c)
          BY <4>3 DEF FindAvailable
        <4>4. CASE FindExisting(c)
          <5>1. row[call[c].req].status \in {"ABSENT", "VALIDATED", "QUEUED"}
            <6>1. call[c].req \in Requests
              BY <4>4 DEF FindExisting, At, CallsInv, CallOk, CallShape, Sending
            <6> QED BY <6>1, RowColumns DEF DataInv, Stored
          <5> QED BY <4>4, <5>1 DEF FindExisting
        <4> QED BY <2>1, <4>1, <4>2, <4>3, <4>4
      <3>2. "done" \notin ReadingPcs /\ "findVariables" \notin ReadingPcs
            /\ "republish" \notin ReadingPcs
        BY DEF ReadingPcs
      <3> QED BY <3>1, <3>2, WhereCallsGo
    <2>2. CASE FindVariables(c)
      <3>1. call' = [call EXCEPT ![c].pc = "commit", ![c].served = {}] =>
               call'[c].pc = "commit"
        BY <1>1 DEF CallRecord
      <3> QED BY <2>2, <3>1, WhereCallsGo DEF FindVariables, ReadingPcs
    <2>3. CASE Commit(c)
      <3>1. call'[c].pc = "publish"
        BY <1>1, <2>3 DEF Commit, CallRecord
      <3> QED BY <3>1 DEF ReadingPcs
    <2>4. CASE Publish(c) \/ Republish(c) \/ MarkQueued(c) \/ MarkRequeued(c)
      BY <2>4, WhereCallsGo DEF Publish, Republish, MarkQueued, MarkRequeued, ReadingPcs
    <2>5. CASE RefuseBody(c) \/ CommitWithoutReceiver(c) \/ CommitConflict(c) \/ CallFails(c)
      BY <2>5, WhereCallsGo
      DEF RefuseBody, CommitWithoutReceiver, CommitConflict, CallFails, ReadingPcs
    <2> QED BY <2>1, <2>2, <2>3, <2>4, <2>5 DEF Reads, Writes
  <1> QED BY <1>2, <1>3, <1>4, <1>5, <1>6, <1>7

\* What an edit changes: one column of one row, and the history of the call.
LEMMA EditChanges ==
    ASSUME table \in [Templates -> TemplateRow], CallsInv, NEW t \in Templates, Edit(t)
    PROVE  /\ table' \in [Templates -> TemplateRow]
           /\ \A u \in Templates \ {t} : table'[u] = table[u]
           /\ \/ table'[t].active = table[t].active /\ table'[t].allowed = table[t].allowed
              \/ table'[t].active = table[t].active /\ table'[t].scope = table[t].scope
              \/ table'[t].allowed = table[t].allowed /\ table'[t].scope = table[t].scope
           /\ \E c \in Calls :
                /\ \A d \in Calls \ {c} : call[d].pc = "idle" /\ call'[d] = call[d]
                /\ DOMAIN call' = Calls
                /\ call[c].pc \in ReadingPcs \cup {"findExisting"}
                /\ \E usable \in SUBSET Templates :
                     /\ usable = UsableNow'
                     /\ call'[c] = [call[c] EXCEPT !.always = @ \cap usable,
                                                   !.ever = @ \cup usable, !.edited = @ + 1]
  <1>1. \/ table' = [table EXCEPT ![t].active = ~@]
        \/ table' = [table EXCEPT ![t].allowed = ~@]
        \/ \E scope \in {"PUBLIC", "PRIVATE"} : table' = [table EXCEPT ![t].scope = scope]
    BY DEF Edit
  <1>2. /\ table' \in [Templates -> TemplateRow]
        /\ \A u \in Templates \ {t} : table'[u] = table[u]
        /\ \/ table'[t].active = table[t].active /\ table'[t].allowed = table[t].allowed
           \/ table'[t].active = table[t].active /\ table'[t].scope = table[t].scope
           \/ table'[t].allowed = table[t].allowed /\ table'[t].scope = table[t].scope
    <2>1. CASE table' = [table EXCEPT ![t].active = ~@]
      <3>1. [table[t] EXCEPT !.active = ~@] \in TemplateRow
        BY DEF TemplateRow
      <3> QED BY <2>1, <3>1 DEF TemplateRow
    <2>2. CASE table' = [table EXCEPT ![t].allowed = ~@]
      <3>1. [table[t] EXCEPT !.allowed = ~@] \in TemplateRow
        BY DEF TemplateRow
      <3> QED BY <2>2, <3>1 DEF TemplateRow
    <2>3. CASE \E scope \in {"PUBLIC", "PRIVATE"} : table' = [table EXCEPT ![t].scope = scope]
      <3>1. PICK scope \in {"PUBLIC", "PRIVATE"} : table' = [table EXCEPT ![t].scope = scope]
        BY <2>3
      <3>2. [table[t] EXCEPT !.scope = scope] \in TemplateRow
        BY DEF TemplateRow
      <3> QED BY <3>1, <3>2 DEF TemplateRow
    <2> QED BY <1>1, <2>1, <2>2, <2>3
  <1>3. PICK usable \in SUBSET Templates : usable = UsableNow'
    BY DEF UsableNow
  <1>4. PICK c \in Calls :
           /\ call[c].pc \in ReadingPcs \cup {"findExisting"}
           /\ \A d \in Calls \ {c} : At(d, "idle")
           /\ call' = [call EXCEPT ![c].always = @ \cap usable,
                                   ![c].ever = @ \cup usable, ![c].edited = @ + 1]
    BY <1>3 DEF Edit
  <1>5. /\ \A d \in Calls \ {c} : call[d].pc = "idle" /\ call'[d] = call[d]
        /\ DOMAIN call' = Calls
        /\ call'[c] = [call[c] EXCEPT !.always = @ \cap usable,
                                      !.ever = @ \cup usable, !.edited = @ + 1]
    BY <1>4 DEF At, CallsInv
  <1> QED BY <1>2, <1>3, <1>4, <1>5

\* The one edit that is allowed for leaves the reading call a way out.
LEMMA EditMoves ==
    ASSUME ContentInv, NEW t \in Templates, Edit(t)
    PROVE  ContentInv'
  <1>1. /\ table \in [Templates -> TemplateRow] /\ faults \in 0..MaxFaults /\ DataInv
        /\ CallsInv /\ \A d \in Calls : ReadOk(d)
    BY DEF ContentInv
  <1>2. UNCHANGED contentVars /\ UNCHANGED faults /\ UNCHANGED row
    BY DEF Edit, contentVars
  <1>3. /\ table' \in [Templates -> TemplateRow]
        /\ \A u \in Templates \ {t} : table'[u] = table[u]
        /\ \/ table'[t].active = table[t].active /\ table'[t].allowed = table[t].allowed
           \/ table'[t].active = table[t].active /\ table'[t].scope = table[t].scope
           \/ table'[t].allowed = table[t].allowed /\ table'[t].scope = table[t].scope
    BY <1>1, EditChanges
  <1>4. PICK c \in Calls :
           /\ \A d \in Calls \ {c} : call[d].pc = "idle" /\ call'[d] = call[d]
           /\ DOMAIN call' = Calls
           /\ call[c].pc \in ReadingPcs \cup {"findExisting"}
           /\ \E usable \in SUBSET Templates :
                /\ usable = UsableNow'
                /\ call'[c] = [call[c] EXCEPT !.always = @ \cap usable,
                                              !.ever = @ \cup usable, !.edited = @ + 1]
    BY <1>1, EditChanges
  <1>5. PICK usable \in SUBSET Templates :
           /\ usable = UsableNow'
           /\ call'[c] = [call[c] EXCEPT !.always = @ \cap usable,
                                         !.ever = @ \cup usable, !.edited = @ + 1]
    BY <1>4
  <1>6. call[c] \in CallRecord /\ CallOk(c) /\ ReadOk(c)
    BY <1>1 DEF CallsInv, CallOk, CallShape
  <1>7. /\ call'[c].always = call[c].always \cap usable
        /\ call'[c].ever = call[c].ever \cup usable
        /\ call'[c].edited = call[c].edited + 1
        /\ call'[c].pc = call[c].pc /\ call'[c].kind = call[c].kind
        /\ call'[c].code = call[c].code /\ call'[c].req = call[c].req
        /\ call'[c].answer = call[c].answer /\ call'[c].accesses = call[c].accesses
    BY <1>5, <1>6 DEF CallRecord
  <1>8. call'[c] \in CallRecord /\ call[c].edited \in Nat
    <2>1. call[c].always \cap usable \in SUBSET Templates
          /\ call[c].ever \cup usable \in SUBSET Templates
          /\ call[c].edited \in Nat /\ call[c].edited + 1 \in Nat
      BY <1>6, CallTyping
    <2> QED BY <1>5, <1>6, <2>1 DEF CallRecord
  <1>9. RowsMove({}) /\ RowsMove({c}) /\ EventsMove
    BY <1>2, ContentKept
  <1>10. CallsInv'
    <2>1. CallOk(c)'
      <3>1. call'[c].always \subseteq call'[c].ever
        BY <1>6, <1>7 DEF CallOk, CallShape
      <3>2. /\ call[c].pc \in {"findTemplate", "findAccess"} => call[c].kind # "list"
            /\ call[c].pc = "findExisting" => call[c].kind = "send"
        BY <1>6 DEF CallOk, CallShape, Sending
      <3> QED BY <1>2, <1>4, <1>6, <1>7, <1>8, <3>1, <3>2, EarlyOk DEF ReadingPcs
    <2>2. ASSUME NEW d \in Calls \ {c} PROVE CallOk(d)'
      BY <1>1, <1>4, <1>9, RestingOk DEF CallsInv
    <2> QED BY <1>4, <2>1, <2>2 DEF CallsInv
  <1>11. DataInv'
    <2>1. key' \in [{"gateway", "worker"} -> EncryptionKeys]
      BY <1>1, <1>2 DEF DataInv, contentVars
    <2> QED BY <1>1, <1>9, <2>1, DataStep
  <1>12. ASSUME NEW d \in Calls \ {c} PROVE ReadOk(d)'
    <2>1. call'[d].pc = "idle"
      BY <1>4
    <2> QED BY <2>1, ReadElsewhere DEF ReadingPcs
  <1>13. ReadOk(c)'
    <2> DEFINE T == table'
    <2>1. /\ table[t] \in TemplateRow /\ T[t] \in TemplateRow
          /\ \A u \in Templates : u \in UsableNow <=> Usable(table[u])
          /\ \A u \in Templates : u \in usable <=> Usable(T[u])
          /\ UsableNow \subseteq Templates
      BY <1>1, <1>3, <1>5 DEF UsableNow
    <2>2. call[c].always \subseteq UsableNow /\ UsableNow \subseteq call[c].ever
      BY <1>4, <1>6 DEF ReadOk
    <2>3. CASE call[c].pc = "findAvailable"
      <3>1. ASSUME call[c].edited = 0
            PROVE  /\ call[c].always \cap usable \subseteq Available(T, call[c].accesses)
                   /\ Available(T, call[c].accesses) \subseteq call[c].ever \cup usable
        <4>1. call[c].accesses = Accesses(table)
          BY <1>6, <2>3, <3>1 DEF ReadOk, ListingOk
        <4>2. ASSUME NEW u \in Templates
              PROVE  /\ u \in UsableNow /\ u \in usable => u \in Available(T, Accesses(table))
                     /\ u \in Available(T, Accesses(table)) => u \in UsableNow \/ u \in usable
          <5>1. u \in Accesses(table) <=> table[u].allowed
            BY DEF Accesses
          <5>2. u \in Available(T, Accesses(table)) <=>
                   T[u].active /\ (T[u].scope = "PUBLIC" \/ table[u].allowed)
            BY <5>1 DEF Available
          <5>3. CASE u = t
            BY <1>3, <2>1, <5>2, <5>3 DEF Usable
          <5>4. CASE u # t
            BY <1>3, <2>1, <5>2, <5>4 DEF Usable
          <5> QED BY <5>3, <5>4
        <4> QED BY <2>1, <2>2, <4>1, <4>2 DEF Available
      <3>2. ListingOk(c)'
        BY <1>7, <1>8, <3>1 DEF ListingOk
      <3> QED BY <1>5, <1>7, <2>2, <2>3, <3>2 DEF ReadOk
    <2>4. CASE call[c].pc = "findAccess"
      <3>1. PICK code \in Templates : code = call[c].code
        BY <1>6, <2>4 DEF CallOk, CallShape
      <3>2. ASSUME call[c].edited = 0
            PROVE  /\ T[code].allowed => code \in call[c].ever \cup usable
                   /\ code \in call[c].always \cap usable => T[code].allowed
        <4>1. /\ table[code].active /\ table[code].scope # "PUBLIC"
              /\ table[code].allowed => code \in call[c].ever
          BY <1>6, <2>4, <3>1, <3>2 DEF ReadOk, LookupOk
        <4>2. CASE code = t
          BY <1>3, <2>1, <2>2, <4>1, <4>2 DEF Usable
        <4>3. CASE code # t
          BY <1>3, <2>1, <2>2, <4>1, <4>3 DEF Usable
        <4> QED BY <4>2, <4>3
      <3>3. LookupOk(c)'
        BY <1>7, <1>8, <3>1, <3>2 DEF LookupOk
      <3> QED BY <1>5, <1>7, <2>2, <2>4, <3>3 DEF ReadOk
    <2>5. CASE call[c].pc \notin {"findAvailable", "findAccess"}
      BY <1>5, <1>7, <2>2, <2>5 DEF ReadOk
    <2> QED BY <2>3, <2>4, <2>5
  <1> QED BY <1>1, <1>2, <1>3, <1>10, <1>11, <1>12, <1>13 DEF ContentInv

-----------------------------------------------------------------------------
(***************************************************************************)
(* The invariant.                                                          *)
(***************************************************************************)
LEMMA InitContent == Init => ContentInv
  <1> SUFFICES ASSUME Init PROVE ContentInv
    OBVIOUS
  <1> USE DEF Init
  <1>1. DataInv
    <2>1. RowsInserted
      BY DEF RowsInserted
    <2>2. EventsFollow
      BY DEF EventsFollow, AbsentRow
    <2> QED BY <2>1, <2>2 DEF DataInv
  <1>2. ASSUME NEW c \in Calls PROVE CallOk(c) /\ ReadOk(c)
    <2>1. call[c] = IdleCall
      OBVIOUS
    <2>2. IdleCall \in CallRecord
      <3>1. NoAnswer \in AnswerRecord /\ "list" \in Kinds /\ "idle" \in CallPc
        BY Answers DEF Kinds, CallPc
      <3> QED BY <3>1 DEF IdleCall, CallRecord
    <2>3. /\ IdleCall.pc = "idle" /\ IdleCall.kind = "list" /\ IdleCall.req = None
          /\ IdleCall.answer = NoAnswer /\ IdleCall.always = {} /\ IdleCall.ever = {}
      BY DEF IdleCall
    <2>4. CallShape(c)
      BY <2>1, <2>2, <2>3 DEF CallShape, Sending
    <2>5. \A r \in Requests : row[r].by # c
      BY ContentAssumption DEF AbsentRow
    <2>6. CallFollows(c) /\ AnswerTrue(c)
      BY <2>1, <2>3, <2>5 DEF CallFollows, AnswerTrue
    <2>7. ReadOk(c)
      BY <2>1, <2>3 DEF ReadOk, ReadingPcs
    <2> QED BY <2>4, <2>6, <2>7 DEF CallOk
  <1>3. faults \in 0..MaxFaults
    BY ContentAssumption
  <1> QED BY <1>1, <1>2, <1>3 DEF ContentInv, CallsInv

\* A step of one call.
LEMMA CallStep ==
    ASSUME ContentInv, NEW c \in Calls, Reads(c) \/ Writes(c) \/ CallFails(c)
    PROVE  ContentInv'
  <1>1. /\ DataInv /\ CallsInv /\ \A d \in Calls : CallOk(d) /\ ReadOk(d)
        /\ key \in [{"gateway", "worker"} -> EncryptionKeys]
    BY DEF ContentInv, CallsInv, DataInv
  <1>2. UNCHANGED <<table, key>>
    BY DEF Reads, Receive, RefuseBody, FindTemplate, FindAccess, FindAccesses, FindAvailable,
           FindExisting, FindVariables, Writes, Commit, CommitWithoutReceiver, CommitConflict,
           Publish, MarkQueued, Republish, MarkRequeued, CallFails, contentVars
  <1>3. faults' \in 0..MaxFaults
    <2>1. faults' = faults \/ (faults < MaxFaults /\ faults' = faults + 1)
      BY DEF Reads, Receive, RefuseBody, FindTemplate, FindAccess, FindAccesses, FindAvailable,
             FindExisting, FindVariables, Writes, Commit, CommitWithoutReceiver, CommitConflict,
             Publish, MarkQueued, Republish, MarkRequeued, CallFails
    <2> QED BY <2>1, ContentAssumption DEF ContentInv
  <1>4. RowsMove({c}) /\ EventsMove /\ CallMoved(c)
    BY <1>1, ReadsMove, WritesMove, FailsMove, ContentKept
  <1>5. DataInv'
    BY <1>1, <1>2, <1>4, DataStep
  <1>6. CallsInv'
    <2>1. ASSUME NEW d \in Calls \ {c} PROVE CallOk(d)'
      BY <1>1, <1>4, RestingOk DEF CallMoved
    <2> QED BY <1>4, <2>1 DEF CallsInv, CallMoved
  <1>7. ASSUME NEW d \in Calls PROVE ReadOk(d)'
    <2>1. CASE d = c
      BY <1>1, <1>2, <2>1, ReadMoves
    <2>2. CASE d # c
      <3>1. call'[d] = call[d]
        BY <1>4, <2>2 DEF CallMoved
      <3> QED BY <1>1, <1>2, <3>1, ReadRests
    <2> QED BY <2>1, <2>2
  <1> QED BY <1>2, <1>3, <1>5, <1>6, <1>7 DEF ContentInv

LEMMA ContentStep == ContentInv /\ [Next]_vars => ContentInv'
  <1> SUFFICES ASSUME ContentInv, [Next]_vars PROVE ContentInv'
    OBVIOUS
  <1>1. /\ DataInv /\ CallsInv /\ \A d \in Calls : CallOk(d) /\ ReadOk(d)
        /\ key \in [{"gateway", "worker"} -> EncryptionKeys]
    BY DEF ContentInv, CallsInv, DataInv
  <1>2. CASE \E c \in Calls : Reads(c) \/ Writes(c) \/ CallFails(c)
    BY <1>2, CallStep
  <1>3. CASE \E r \in Requests : RelayPublishes(r) \/ RetryPublishes(r) \/ Handle(r)
    <2>1. PICK r \in Requests : RelayPublishes(r) \/ RetryPublishes(r) \/ Handle(r)
      BY <1>3
    <2>2. RowsMove({}) /\ EventsMove /\ UNCHANGED call /\ UNCHANGED <<table, key, faults>>
      BY <1>1, <2>1, OthersMove DEF RelayPublishes, RetryPublishes, Handle
    <2>3. DataInv'
      BY <1>1, <2>2, DataStep
    <2>4. ASSUME NEW d \in Calls PROVE CallOk(d)' /\ ReadOk(d)'
      BY <1>1, <2>2, RestingOk, ReadRests
    <2> QED BY <2>2, <2>3, <2>4 DEF ContentInv, CallsInv
  <1>4. CASE \E app \in {"gateway", "worker"} : Restart(app)
    <2>1. PICK app \in {"gateway", "worker"} : Restart(app)
      BY <1>4
    <2>2. /\ UNCHANGED <<row, wire, handled, table>> /\ CallsInv'
          /\ key' \in [{"gateway", "worker"} -> EncryptionKeys]
          /\ faults < MaxFaults /\ faults' = faults + 1
      BY <1>1, <2>1, RestartMoves DEF Restart
    <2>3. RowsMove({}) /\ EventsMove
      BY <2>2, RowsKept, EventsKept
    <2>4. DataInv'
      BY <1>1, <2>2, <2>3, DataStep
    <2>5. ASSUME NEW d \in Calls PROVE ReadOk(d)'
      <3>1. call'[d] = call[d] \/ call'[d] = Finished(d, NoAnswer, {})
        BY <2>1 DEF Restart
      <3>2. CASE call'[d] = call[d]
        BY <1>1, <2>2, <3>2, ReadRests
      <3>3. CASE call'[d] = Finished(d, NoAnswer, {})
        <4>1. call'[d].pc = "done"
          BY <3>3 DEF Finished, IdleCall
        <4> QED BY <4>1, ReadElsewhere DEF ReadingPcs
      <3> QED BY <3>1, <3>2, <3>3
    <2>6. faults' \in 0..MaxFaults
      BY <2>2, ContentAssumption DEF ContentInv
    <2> QED BY <2>2, <2>4, <2>5, <2>6 DEF ContentInv
  <1>5. CASE \E t \in Templates : Edit(t)
    BY <1>5, EditMoves
  <1>6. CASE UNCHANGED vars
    <2>1. UNCHANGED <<table, call, row, wire, handled, key, faults>>
      BY <1>6 DEF vars
    <2>2. RowsMove({}) /\ EventsMove
      BY <2>1, RowsKept, EventsKept
    <2>3. DataInv'
      BY <1>1, <2>1, <2>2, DataStep
    <2>4. ASSUME NEW d \in Calls PROVE CallOk(d)' /\ ReadOk(d)'
      BY <1>1, <2>1, <2>2, RestingOk, ReadRests
    <2> QED BY <2>1, <2>3, <2>4 DEF ContentInv, CallsInv
  <1> QED BY <1>2, <1>3, <1>4, <1>5, <1>6 DEF Next, Reads, Writes

LEMMA ContentAlways == Spec => []ContentInv
  BY InitContent, ContentStep, PTL DEF Spec

-----------------------------------------------------------------------------
(***************************************************************************)
(* What a worker is handed.                                                *)
(***************************************************************************)

\* What fits still fits when it has been through JSON: the one value JSON
\* changes, an infinite number, fits no type.
LEMMA JsonFits ==
    ASSUME NEW variables, \A k \in DOMAIN variables : variables[k].type \in DataTypes,
           NEW data, Fits(variables, data)
    PROVE  Fits(variables, JsonData(data))
  <1> DEFINE m == JsonData(data)
  <1>1. DOMAIN m = DOMAIN data /\ \A k \in DOMAIN data : m[k] = Json(data[k])
    BY DEF JsonData
  <1>2. \A v : /\ v.type # "infinite" => Json(v).type = v.type
               /\ v.type = "infinite" => Json(v).type = "null"
    BY DEF Json, JsonLeaf, Object, Plain
  <1> HIDE DEF m
  <1>3. ASSUME NEW k \in DOMAIN variables
        PROVE  IF Missing(m, k) THEN ~variables[k].isRequired
                                ELSE IsMatched(variables[k].type, m[k])
    <2>1. IF Missing(data, k) THEN ~variables[k].isRequired
                              ELSE IsMatched(variables[k].type, data[k])
      BY DEF Fits
    <2>2. CASE Missing(data, k)
      <3>1. Missing(m, k)
        BY <1>1, <1>2, <2>2 DEF Missing
      <3> QED BY <2>1, <2>2, <3>1
    <2>3. CASE ~Missing(data, k)
      <3>1. k \in DOMAIN data /\ data[k].type # "null"
        BY <2>3 DEF Missing
      <3>2. IsMatched(variables[k].type, data[k]) /\ variables[k].type \in DataTypes
        BY <2>1, <2>3
      <3>3. data[k].type # "infinite"
        BY <3>2 DEF IsMatched, DataTypes
      <3>4. m[k].type = data[k].type
        BY <1>1, <1>2, <3>1, <3>3
      <3>5. IsMatched(variables[k].type, m[k])
        BY <3>2, <3>4 DEF IsMatched
      <3>6. ~Missing(m, k)
        BY <1>1, <3>1, <3>4 DEF Missing
      <3> QED BY <3>5, <3>6
    <2> QED BY <2>2, <2>3
  <1>4. Fits(variables, m)
    BY <1>3 DEF Fits
  <1> QED BY <1>4 DEF m

\* The row behind an event a worker was handed.
LEMMA HandledRow ==
    ASSUME DataInv, NEW r \in Requests, NEW event \in handled[r]
    PROVE  \E t \in Templates, channel \in Channels, input \in Inputs :
              /\ Fits(input.variables, input.document)
              /\ row[r].variables = input.variables
              /\ row[r].sent = Event(t, channel, input.document)
              /\ event = Event(t, channel, JsonData(input.document))
  <1>1. Stored(r) /\ event = Opened(row[r].event)
    BY DEF DataInv, EventsFollow
  <1>2. PICK status \in {"VALIDATED", "QUEUED"}, c \in Calls, t \in Templates,
             channel \in Channels, input \in Inputs, k \in EncryptionKeys :
           /\ Fits(input.variables, input.document)
           /\ row[r] = RowOf(status, c, t, channel, input, k)
    BY <1>1, RowColumns DEF DataInv, InsertedRow
  <1> DEFINE envelope == Encrypt(k, input.document)
  <1>3. /\ row[r].variables = input.variables
        /\ row[r].sent = Event(t, channel, input.document)
        /\ row[r].event = Event(t, channel, envelope)
    BY <1>2 DEF RowOf
  <1>4. IsEncrypted(envelope) /\ Decrypt(envelope) = JsonData(input.document)
    BY DEF Encrypt, IsEncrypted, Decrypt
  <1> HIDE DEF envelope
  <1>5. Event(t, channel, envelope).variables = envelope
    BY DEF Event
  <1>6. Opened(Event(t, channel, envelope)) =
           [Event(t, channel, envelope) EXCEPT !.variables = Decrypt(@)]
    BY <1>4, <1>5 DEF Opened
  <1>7. Opened(Event(t, channel, envelope)) = Event(t, channel, JsonData(input.document))
    BY <1>4, <1>6 DEF Event
  <1> QED BY <1>1, <1>2, <1>3, <1>7

LEMMA HandledFacts == ContentInv => HandledIsSent /\ HandledFits
  <1> SUFFICES ASSUME ContentInv, NEW r \in Requests, NEW event \in handled[r]
               PROVE  /\ event = [row[r].sent EXCEPT !.variables = JsonData(@)]
                      /\ Fits(row[r].variables, event.variables)
    BY DEF HandledIsSent, HandledFits
  <1>1. PICK t \in Templates, channel \in Channels, input \in Inputs :
           /\ Fits(input.variables, input.document)
           /\ row[r].variables = input.variables
           /\ row[r].sent = Event(t, channel, input.document)
           /\ event = Event(t, channel, JsonData(input.document))
    BY HandledRow DEF ContentInv
  <1>2. event = [row[r].sent EXCEPT !.variables = JsonData(@)]
    BY <1>1 DEF Event
  <1>3. event.variables = JsonData(input.document)
    BY <1>1 DEF Event
  <1>4. \A k \in DOMAIN input.variables : input.variables[k].type \in DataTypes
    BY ContentAssumption
  <1>5. Fits(input.variables, JsonData(input.document))
    BY <1>1, <1>4, JsonFits
  <1> QED BY <1>1, <1>2, <1>3, <1>5

\* By whichever way an event came, and however often, the process() method of a
\* worker is given the template, the channel and the variables of the call that
\* stored the request, as JSON carries them.
THEOREM WorkerGetsWhatWasSent == Spec => []HandledIsSent
  BY ContentAlways, HandledFacts, PTL

\* TemplateVariableValidator is applied before JSON and encryption; what it let
\* through still fits the variables of the template when the worker gets it.
THEOREM WorkerGetsWhatFits == Spec => []HandledFits
  BY ContentAlways, HandledFacts, PTL

-----------------------------------------------------------------------------
(***************************************************************************)
(* What a client and the tables tell.                                      *)
(***************************************************************************)
LEMMA AnswersTrue == ContentInv => AnswerTellsOutcome
  BY DEF ContentInv, CallsInv, CallOk, AnswerTrue, AnswerTellsOutcome

\* A 4xx to a message request means that this call stored nothing, a 503 that
\* the request is stored, and success names the stored template and channel and
\* comes after the event is in the topic.
THEOREM AnswersCanBeTrusted == Spec => []AnswerTellsOutcome
  BY ContentAlways, AnswersTrue, PTL

LEMMA MaskedFacts == ContentInv => MaskedRevealsLittle
  <1> SUFFICES ASSUME ContentInv, NEW r \in Requests, Stored(r)
               PROVE  LET sent == row[r].sent.variables
                          masked == row[r].masked IN
                      /\ DOMAIN masked = DOMAIN sent
                      /\ \A k \in DOMAIN sent :
                           IF sent[k].type = "object"
                             THEN \A f \in DOMAIN sent[k].fields :
                                    RevealsLittle(f, sent[k].fields[f], masked[k].fields[f])
                             ELSE RevealsLittle(k, sent[k], masked[k])
    BY DEF MaskedRevealsLittle
  <1>1. PICK status \in {"VALIDATED", "QUEUED"}, c \in Calls, t \in Templates,
             channel \in Channels, input \in Inputs, k \in EncryptionKeys :
           row[r] = RowOf(status, c, t, channel, input, k)
    BY RowColumns DEF ContentInv, DataInv, InsertedRow
  <1>2. PICK d : d = input.document
    OBVIOUS
  <1>3. row[r].sent.variables = d /\ row[r].masked = JsonData(Mask(d))
    BY <1>1, <1>2 DEF RowOf, Event
  <1>4. IsDocument(d)
    BY <1>2, ContentAssumption
  <1> QED BY <1>3, <1>4, DocumentShown

\* The masked copy, stored for audits beside the envelope, shows of every string
\* of every document no more than its mask allows, for strings of any length.
THEOREM MaskingHides == Spec => []MaskedRevealsLittle
  BY ContentAlways, MaskedFacts, PTL

LEMMA TypesFollow == ContentInv => TypeOK
  <1> SUFFICES ASSUME ContentInv PROVE TypeOK
    OBVIOUS
  <1>1. /\ table \in [Templates -> TemplateRow] /\ faults \in 0..MaxFaults
        /\ DOMAIN call = Calls /\ DOMAIN row = Requests
        /\ DOMAIN wire = Requests /\ DOMAIN handled = Requests
        /\ key \in [{"gateway", "worker"} -> EncryptionKeys]
    BY DEF ContentInv, DataInv, CallsInv, RowsInserted, EventsFollow
  <1>2. ASSUME NEW c \in Calls
        PROVE  /\ call[c].kind \in Kinds
               /\ call[c].pc \in CallPc
               /\ call[c].code \in Templates \cup {None}
               /\ call[c].req \in Requests \cup {None}
               /\ call[c].accesses \cup call[c].served \subseteq Templates
               /\ call[c].always \subseteq call[c].ever
               /\ call[c].answer.status \in {0, 200, 201, 400, 404, 500, 503}
    <2>1. CallShape(c) /\ call[c] \in CallRecord
      BY DEF ContentInv, CallsInv, CallOk, CallShape
    <2>2. call[c].answer \in AnswerRecord
      BY <2>1, CallTyping
    <2>3. call[c].answer.status \in {0, 200, 201, 400, 404, 500, 503}
      BY <2>2 DEF AnswerRecord
    <2> QED BY <2>1, <2>3, CallTyping DEF CallShape
  <1>3. ASSUME NEW r \in Requests
        PROVE  /\ row[r].status \in {"ABSENT", "VALIDATED", "QUEUED"}
               /\ row[r].status # "ABSENT" => row[r].by \in Calls /\ row[r].channel \in Channels
    BY RowColumns DEF ContentInv, DataInv, Stored
  <1> QED BY <1>1, <1>2, <1>3 DEF TypeOK

\* The template tables, the calls, the rows, the events, the keys and the faults
\* stay what they are declared to be.
THEOREM ContentTyping == Spec => []TypeOK
  BY ContentAlways, TypesFollow, PTL

-----------------------------------------------------------------------------
(***************************************************************************)
(* Reading the template tables without a transaction.                      *)
(***************************************************************************)

\* What a call that ends its reading takes with it.
ReadEnds(c) ==
    /\ call[c].kind = "list" /\ call'[c].answer.status = 200 =>
          call[c].always \subseteq call'[c].served
    /\ call'[c].answer.code = "MSG_TEMPLATE_NOT_FOUND" => call[c].code \notin call[c].always
    /\ call'[c].served \subseteq call[c].ever

\* An answer that names no template and does not deny one.
LEMMA EndsWithout ==
    ASSUME NEW c \in Calls, NEW a \in AnswerRecord, a.code # "MSG_TEMPLATE_NOT_FOUND",
           a.status # 200, call'[c] = Finished(c, a, {})
    PROVE  ReadEnds(c)
  <1>1. call'[c].answer = a /\ call'[c].served = {}
    BY DEF Finished, IdleCall
  <1> QED BY <1>1 DEF ReadEnds

\* A template is given away that was usable, to a call that asked for no list.
LEMMA EndsGranted ==
    ASSUME CallsInv, NEW c \in Calls, call[c].pc \in {"findTemplate", "findAccess"},
           call[c].code \in call[c].ever, Granted(c)
    PROVE  ReadEnds(c)
  <1>1. /\ DOMAIN call = Calls /\ call[c] \in CallRecord /\ call[c].kind # "list"
        /\ call[c].answer = NoAnswer
    BY DEF CallsInv, CallOk, CallShape
  <1>2. Answer(200, "none").code = "none" /\ NoAnswer.code = "none"
    BY DEF Answer, NoAnswer
  <1>3. CASE call[c].kind = "template"
    <2>1. call'[c] = Finished(c, Answer(200, "none"), {call[c].code})
      BY <1>1, <1>3 DEF Granted, Done
    <2>2. call'[c].answer = Answer(200, "none") /\ call'[c].served = {call[c].code}
      BY <2>1 DEF Finished, IdleCall
    <2> QED BY <1>1, <1>2, <2>2 DEF ReadEnds
  <1>4. CASE call[c].kind # "template"
    <2>1. call'[c] = [call[c] EXCEPT !.pc = "findVariables", !.served = {call[c].code},
                                     !.always = {}, !.ever = {}, !.edited = 0]
      BY <1>1, <1>4 DEF Granted
    <2>2. call'[c].answer = NoAnswer /\ call'[c].served = {call[c].code}
      BY <1>1, <2>1 DEF CallRecord
    <2> QED BY <1>1, <1>2, <2>2 DEF ReadEnds
  <1> QED BY <1>3, <1>4

LEMMA EndsNotFound ==
    ASSUME CallsInv, NEW c \in Calls, call[c].code \notin call[c].always, NotFound(c)
    PROVE  ReadEnds(c)
  <1>1. PICK exception : exception = AppException("MSG_TEMPLATE_NOT_FOUND", 404)
    OBVIOUS
  <1>2. PICK a \in AnswerRecord : a = Resolve(exception) /\ a.status = 404
    BY <1>1, Answers DEF Codes
  <1>3. call'[c] = Finished(c, a, {})
    BY <1>1, <1>2 DEF NotFound, Throws, Done, CallsInv
  <1>4. call'[c].answer = a /\ call'[c].served = {}
    BY <1>3 DEF Finished, IdleCall
  <1> QED BY <1>2, <1>4 DEF ReadEnds

LEMMA ReadingEnds ==
    ASSUME ContentInv, NEW c \in Calls, Reads(c) \/ Writes(c) \/ CallFails(c),
           HasRead(c), call[c].edited <= 1
    PROVE  ReadEnds(c)
  <1>1. /\ CallsInv /\ CallOk(c) /\ CallShape(c) /\ ReadOk(c) /\ call[c] \in CallRecord
        /\ table \in [Templates -> TemplateRow]
    BY DEF ContentInv, CallsInv, CallOk, CallShape
  <1>2. call[c].pc \in ReadingPcs /\ call'[c].pc \notin ReadingPcs
    BY DEF HasRead
  <1>3. call[c].always \subseteq UsableNow /\ UsableNow \subseteq call[c].ever
    BY <1>1, <1>2 DEF ReadOk
  <1>4. CASE FindTemplate(c)
    <2>1. call[c].pc = "findTemplate" /\ call[c].code \in Templates
      BY <1>1, <1>4 DEF FindTemplate, At, CallShape
    <2>2. CASE ~table[call[c].code].active
      <3>1. NotFound(c)
        BY <1>4, <2>2 DEF FindTemplate
      <3>2. call[c].code \notin call[c].always
        BY <1>3, <2>2 DEF UsableNow, Usable
      <3> QED BY <1>1, <3>1, <3>2, EndsNotFound
    <2>3. CASE /\ table[call[c].code].active /\ table[call[c].code].scope = "PUBLIC"
      <3>1. Granted(c)
        BY <1>4, <2>3 DEF FindTemplate
      <3>2. call[c].code \in call[c].ever
        BY <1>3, <2>1, <2>3 DEF UsableNow, Usable
      <3> QED BY <1>1, <2>1, <3>1, <3>2, EndsGranted
    <2>4. CASE table[call[c].code].active /\ table[call[c].code].scope # "PUBLIC"
      <3>1. Goto(c, "findAccess")
        BY <1>4, <2>4 DEF FindTemplate
      <3> QED BY <1>1, <1>2, <3>1, WhereCallsGo DEF ReadingPcs
    <2> QED BY <2>2, <2>3, <2>4
  <1>5. CASE FindAccess(c)
    <2>1. call[c].pc = "findAccess" /\ LookupOk(c)
      BY <1>1, <1>5 DEF FindAccess, At, ReadOk
    <2>2. CASE table[call[c].code].allowed
      <3>1. Granted(c) /\ call[c].code \in call[c].ever
        BY <1>5, <2>1, <2>2 DEF FindAccess, LookupOk
      <3> QED BY <1>1, <2>1, <3>1, EndsGranted
    <2>3. CASE ~table[call[c].code].allowed
      <3>1. NotFound(c) /\ call[c].code \notin call[c].always
        BY <1>5, <2>1, <2>3 DEF FindAccess, LookupOk
      <3> QED BY <1>1, <3>1, EndsNotFound
    <2> QED BY <2>2, <2>3
  <1>6. CASE FindAvailable(c)
    <2>1. call[c].pc = "findAvailable" /\ ListingOk(c)
      BY <1>1, <1>6 DEF FindAvailable, At, ReadOk
    <2>2. PICK served \in SUBSET Templates : served = Available(table, call[c].accesses)
      BY DEF Available
    <2>3. call[c].always \subseteq served /\ served \subseteq call[c].ever
      BY <2>1, <2>2 DEF ListingOk
    <2>4. call'[c] = Finished(c, Answer(200, "none"), served)
      BY <1>1, <1>6, <2>2 DEF FindAvailable, Done, CallsInv
    <2>5. call'[c].answer = Answer(200, "none") /\ call'[c].served = served
      BY <2>4 DEF Finished, IdleCall
    <2>6. Answer(200, "none").code = "none"
      BY DEF Answer
    <2> QED BY <2>3, <2>5, <2>6 DEF ReadEnds
  <1>7. CASE FindAccesses(c)
    <2>1. call'[c].pc = "findAvailable"
      BY <1>1, <1>7 DEF FindAccesses, CallsInv, CallRecord
    <2> QED BY <1>2, <2>1 DEF ReadingPcs
  <1>8. CASE CallFails(c)
    <2>1. Throws(c, OtherError)
      BY <1>2, <1>8 DEF CallFails, ReadingPcs
    <2>2. PICK exception : exception = OtherError
      OBVIOUS
    <2>3. PICK a \in AnswerRecord : a = Resolve(exception) /\ a.status = 500
      BY <2>2, Answers
    <2>4. a.code = "SYS_INTERNAL_ERROR"
      BY <2>2, <2>3 DEF Resolve, OtherError, Answer
    <2>5. call'[c] = Finished(c, a, {})
      BY <1>1, <2>1, <2>2, <2>3 DEF Throws, Done, CallsInv
    <2> QED BY <2>3, <2>4, <2>5, EndsWithout
  <1>9. FindTemplate(c) \/ FindAccess(c) \/ FindAvailable(c) \/ FindAccesses(c) \/ CallFails(c)
    BY <1>2 DEF Reads, Writes, Receive, RefuseBody, FindExisting, FindVariables, Commit,
                CommitWithoutReceiver, CommitConflict, Publish, MarkQueued, Republish,
                MarkRequeued, At, ReadingPcs
  <1> QED BY <1>4, <1>5, <1>6, <1>7, <1>8, <1>9

LEMMA EveryReadingEnds ==
    ASSUME ContentInv, [Next]_vars, NEW c \in Calls, HasRead(c), call[c].edited <= 1
    PROVE  ReadEnds(c)
  <1>1. DataInv /\ CallsInv /\ table \in [Templates -> TemplateRow]
    BY DEF ContentInv
  <1>2. call'[c] # call[c] /\ call'[c].pc # call[c].pc
    BY DEF HasRead
  <1>3. CASE \E d \in Calls : Reads(d) \/ Writes(d) \/ CallFails(d)
    <2>1. PICK d \in Calls : Reads(d) \/ Writes(d) \/ CallFails(d)
      BY <1>3
    <2>2. CallMoved(d)
      BY <1>1, <2>1, ReadsMove, WritesMove, FailsMove
    <2>3. d = c
      BY <1>2, <2>2 DEF CallMoved
    <2> QED BY <2>1, <2>3, ReadingEnds
  <1>4. CASE \E r \in Requests : RelayPublishes(r) \/ RetryPublishes(r) \/ Handle(r)
    BY <1>2, <1>4 DEF RelayPublishes, RetryPublishes, Handle
  <1>5. CASE \E app \in {"gateway", "worker"} : Restart(app)
    <2>1. call'[c] = Finished(c, NoAnswer, {})
      BY <1>2, <1>5 DEF Restart
    <2>2. NoAnswer \in AnswerRecord /\ NoAnswer.status = 0 /\ NoAnswer.code = "none"
      BY Answers DEF NoAnswer, Answer
    <2> QED BY <2>1, <2>2, EndsWithout
  <1>6. CASE \E t \in Templates : Edit(t)
    <2>1. PICK t \in Templates : Edit(t)
      BY <1>6
    <2>2. PICK d \in Calls :
             /\ \A e \in Calls \ {d} : call[e].pc = "idle" /\ call'[e] = call[e]
             /\ DOMAIN call' = Calls
             /\ call[d].pc \in ReadingPcs \cup {"findExisting"}
             /\ \E usable \in SUBSET Templates :
                  /\ usable = UsableNow'
                  /\ call'[d] = [call[d] EXCEPT !.always = @ \cap usable,
                                                !.ever = @ \cup usable, !.edited = @ + 1]
      BY <1>1, <2>1, EditChanges
    <2>3. call[d] \in CallRecord
      BY <1>1 DEF CallsInv, CallOk, CallShape
    <2>4. call'[d].pc = call[d].pc
      BY <2>2, <2>3 DEF CallRecord
    <2> QED BY <1>2, <2>2, <2>4
  <1>7. CASE UNCHANGED vars
    BY <1>2, <1>7 DEF vars
  <1> QED BY <1>3, <1>4, <1>5, <1>6, <1>7 DEF Next, Reads, Writes

\* A template that was usable all the while a call read the tables is not kept
\* from it, although TemplateService reads them in two queries without a
\* transaction, as long as they change at most once in between.
THEOREM UsableServed == Spec => UsableIsServed
  <1>1. ContentInv /\ [Next]_vars =>
           \A c \in Calls :
              HasRead(c) /\ call[c].edited <= 1 =>
                 /\ call[c].kind = "list" /\ call'[c].answer.status = 200 =>
                       call[c].always \subseteq call'[c].served
                 /\ call'[c].answer.code = "MSG_TEMPLATE_NOT_FOUND" =>
                       call[c].code \notin call[c].always
    BY EveryReadingEnds DEF ReadEnds
  <1> QED BY <1>1, ContentAlways, PTL DEF Spec, UsableIsServed

\* What TemplateService lists or gives away was usable at one moment of the
\* reading, again if the tables change at most once in between.
THEOREM ServedUsable == Spec => ServedWasUsable
  <1>1. ContentInv /\ [Next]_vars =>
           \A c \in Calls :
              HasRead(c) /\ call[c].edited <= 1 => call'[c].served \subseteq call[c].ever
    BY EveryReadingEnds DEF ReadEnds
  <1> QED BY <1>1, ContentAlways, PTL DEF Spec, ServedWasUsable
=============================================================================
