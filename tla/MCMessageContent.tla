-------------------------- MODULE MCMessageContent ---------------------------
EXTENDS MessageContent, TLC

MCVarKeys == {"email", "phone", "nickname", "emailname", "note"}

MCWords ==
    [k \in MCVarKeys |->
       CASE k = "email" -> {"email"} [] k = "phone" -> {"phone"}
         [] k = "nickname" -> {"name"} [] k = "emailname" -> {"email", "name"}
         [] k = "note" -> {}]

Strings(alphabet, length) ==
    {Text(s) : s \in UNION {[1..n -> alphabet] : n \in 0..length}}

MCStrings ==
    {"email" :> Text(s) : s \in
        {<<"x">>, <<"@", "x">>, <<"x", "@">>, <<"x", "x", "@">>,
         <<"x", "x", "x", "@", "@">>}}
      \cup {"emailname" :> Text(<<"x", "x", "x">>)}
      \cup {"phone" :> Text(s) : s \in
              {<<"0", "0", "x", "0">>, <<"0", "x", "0", "0", "0", "0">>}}
      \cup {"nickname" :> v : v \in Strings({"x"}, 3) \ Strings({"x"}, 1)}
      \cup {"note" :> v : v \in Strings({"x"}, 4) \ Strings({"x"}, 2)}
      \cup {"note" :> Object("email" :> Text(<<"x", "x", "@">>))}

\* A value of every type, and none.
MCTyped ==
    {<<>>} \cup {"note" :> Plain(type) : type \in PlainTypes}
           \cup {"note" :> Text(<<"x">>),
                 "note" :> Object("note" :> Plain("infinite"))}

Declared(type, isRequired) ==
    "note" :> [type |-> type, isRequired |-> isRequired]

\* Strings around every bound of a mask, for a template that declares nothing;
\* and a value of every type for a variable of every type, which for one type
\* is optional as well.
MCInputs ==
    [variables: {<<>>}, document: MCStrings]
      \cup [variables: {Declared(type, TRUE) : type \in DataTypes}
                        \cup {Declared("NUMBER", FALSE)},
            document: MCTyped]

MCSymmetry ==
    Permutations(Calls) \cup Permutations(Templates) \cup Permutations(Channels)
      \cup Permutations(EncryptionKeys)
=============================================================================
