---------------------------- MODULE TemplateRules ----------------------------
(***************************************************************************)
(* Which templates a client may use (TemplateService) and which values fit *)
(* the variables of a template (TemplateVariableValidator).  A template is *)
(* known by its code, which is UNIQUE; the rows of all clients but one are *)
(* left out.                                                               *)
(***************************************************************************)
EXTENDS PayloadCrypto

CONSTANT Templates

\* allowed: a row of tb_client_template_access has is_allowed for the client.
\* PRIVATE and RESTRICTED are treated alike.
TemplateRow ==
    [active: BOOLEAN, scope: {"PUBLIC", "PRIVATE"}, allowed: BOOLEAN]

\* What getTemplateByCode asks for, in two queries.
Usable(row) == row.active /\ (row.scope = "PUBLIC" \/ row.allowed)

\* The first query of getClientAvailableTemplates.
Accesses(table) == {t \in Templates : table[t].allowed}

\* Mutant: a client with accesses of its own gets these alone.
Available_OwnOnly(table, accesses) ==
    {t \in Templates :
       /\ table[t].active
       /\ IF accesses = {} THEN table[t].scope = "PUBLIC" ELSE t \in accesses}

\* The second query, which depends on what the first one found.
Available(table, accesses) ==
    {t \in Templates :
       /\ table[t].active
       /\ table[t].scope = "PUBLIC" \/ t \in accesses}

-----------------------------------------------------------------------------
DataTypes ==
    {"STRING", "NUMBER", "BOOLEAN", "DATE", "DATETIME", "OBJECT", "ARRAY"}

\* Mutant: the number need not be finite.
IsMatched_AnyNumber(type, v) ==
    CASE type \in {"STRING", "DATE", "DATETIME"} -> v.type = "string"
      [] type = "NUMBER" -> v.type \in {"number", "infinite"}
      [] type = "BOOLEAN" -> v.type = "boolean"
      [] type = "OBJECT" -> v.type = "object"
      [] type = "ARRAY" -> v.type = "array"

\* A value read from JSON is never a Date.
IsMatched(type, v) ==
    CASE type \in {"STRING", "DATE", "DATETIME"} -> v.type = "string"
      [] type = "NUMBER" -> v.type = "number"
      [] type = "BOOLEAN" -> v.type = "boolean"
      [] type = "OBJECT" -> v.type = "object"
      [] type = "ARRAY" -> v.type = "array"

\* undefined or null.
Missing(data, k) == k \notin DOMAIN data \/ data[k].type = "null"

\* The loop of validate() over the variables of a template, a function from
\* keys to their type and isRequired; other keys of data are not looked at.
Fits(variables, data) ==
    \A k \in DOMAIN variables :
       IF Missing(data, k)
         THEN ~variables[k].isRequired
         ELSE IsMatched(variables[k].type, data[k])
=============================================================================
