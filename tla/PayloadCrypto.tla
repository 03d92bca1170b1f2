---------------------------- MODULE PayloadCrypto ----------------------------
(***************************************************************************)
(* PayloadCryptoService: the variables of a request as a JSON document, in *)
(* an AES-256-GCM envelope, and masked.                                    *)
(*                                                                         *)
(* A document is a function from keys to values, a value a record tagged   *)
(* with its JavaScript type.  A string is the sequence of its characters,  *)
(* each one of "@", "0" (a digit) and "x" (any other).  A key is known by  *)
(* the words it contains in lower case.  Bound: an object holds no objects.*)
(***************************************************************************)
EXTENDS Integers, Sequences, FiniteSets

CONSTANTS
    VarKeys,        \* keys of documents
    Words           \* by key: those of "email", "phone", "name" it contains

ASSUME CryptoAssumption == Words \in [VarKeys -> SUBSET {"email", "phone", "name"}]

Text(chars) == [type |-> "string", chars |-> chars]

\* The values whose content nothing looks at; "infinite" is a number like
\* 1e999, which JSON.parse reads as Infinity.
Plain(type) == [type |-> type]

PlainTypes == {"number", "infinite", "boolean", "null", "array"}

Object(fields) == [type |-> "object", fields |-> fields]

Leaves == [type: {"string"}, chars: Seq({"@", "0", "x"})] \cup [type: PlainTypes]

\* What the body of a request can hold, parsed.
IsDocument(data) ==
    /\ DOMAIN data \subseteq VarKeys
    /\ \A k \in DOMAIN data :
          \/ data[k] \in Leaves
          \/ /\ data[k] = Object(data[k].fields)
             /\ DOMAIN data[k].fields \subseteq VarKeys
             /\ \A f \in DOMAIN data[k].fields : data[k].fields[f] \in Leaves

-----------------------------------------------------------------------------
(* JSON.parse(JSON.stringify(data)): Infinity becomes null. *)

JsonLeaf(v) == IF v.type = "infinite" THEN Plain("null") ELSE v

Json(v) ==
    IF v.type = "object"
      THEN Object([k \in DOMAIN v.fields |-> JsonLeaf(v.fields[k])])
      ELSE JsonLeaf(v)

JsonData(data) == [k \in DOMAIN data |-> Json(data[k])]

Encrypt(key, data) == [_enc |-> JsonData(data), key |-> key]

\* The authentication tag is right under the key of the envelope only;
\* decrypt throws under any other.
Decryptable(key, envelope) == envelope.key = key

Decrypt(envelope) == envelope._enc

IsEncrypted(data) == "_enc" \in DOMAIN data

-----------------------------------------------------------------------------
Stars == <<"*", "*", "*">>

AtMost(n, m) == IF n <= m THEN n ELSE m

AtLeast(n, m) == IF n >= m THEN n ELSE m

\* s.slice(0, n): no error where s is shorter.
Slice(s, n) == SubSeq(s, 1, AtMost(n, Len(s)))

\* Math.ceil(length / 3), and at least 1.
MaskGeneric(s) == Slice(s, AtLeast(1, (Len(s) + 2) \div 3)) \o Stars

MaskName(s) == Slice(s, 2) \o Stars

\* A digit with four more digits somewhere behind it is starred.
MaskPhone(s) ==
    [i \in DOMAIN s |->
       IF s[i] = "0" /\ Cardinality({j \in DOMAIN s : j > i /\ s[j] = "0"}) >= 4
         THEN "*" ELSE s[i]]

\* The first "@" of s, which has one.
AtIndex(s) ==
    CHOOSE i \in DOMAIN s : s[i] = "@" /\ \A j \in 1..(i - 1) : s[j] # "@"

\* Mutant: the whole local part counts, not one character less.
KeptOfLocal_Whole(length) == AtMost(2, AtLeast(1, length))

KeptOfLocal(length) == AtMost(2, AtLeast(1, length - 1))

MaskEmail(s) ==
    IF \A i \in DOMAIN s : s[i] # "@"
      THEN MaskGeneric(s)
      ELSE LET at == AtIndex(s)
               local == SubSeq(s, 1, at - 1) IN
           Slice(local, KeptOfLocal(Len(local))) \o Stars \o SubSeq(s, at, Len(s))

\* The first word found in the key decides.
MaskText(k, s) ==
    IF "email" \in Words[k] THEN MaskEmail(s)
    ELSE IF "phone" \in Words[k] THEN MaskPhone(s)
    ELSE IF "name" \in Words[k] THEN MaskName(s)
    ELSE MaskGeneric(s)

MaskLeaf(k, v) == IF v.type = "string" THEN Text(MaskText(k, v.chars)) ELSE v

\* Objects are masked key by key; arrays, numbers and booleans are kept.
MaskValue(k, v) ==
    IF v.type = "object"
      THEN Object([f \in DOMAIN v.fields |-> MaskLeaf(f, v.fields[f])])
      ELSE MaskLeaf(k, v)

Mask(data) == [k \in DOMAIN data |-> MaskValue(k, data[k])]
=============================================================================
