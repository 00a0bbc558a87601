-------------------------------- MODULE P4Info --------------------------------
(***************************************************************************)
(* What helper.py and convert.py of major-7sem/core make of an entry of a  *)
(* runtime configuration.  An operator that may raise an exception returns *)
(* the set of what it can return: empty when it raises.                    *)
(*                                                                         *)
(* A value of the configuration is a number, a MAC or IPv4 address (its    *)
(* bytes), another string, or a list.  A P4Info file, info below, has      *)
(*   tables:  records [name, alias, fields]                                *)
(*   actions: records [name, alias, params].                               *)
(***************************************************************************)
EXTENDS Integers, Sequences, SequencesExt

BitwidthToBytesOver(w) == w \div 8 + 1   \* mutant: one too many for a multiple of 8
BitwidthToBytes(w) == (w + 7) \div 8

\* A number as bytes, the most significant first; a negative one in two's
\* complement of w bits.
EncodeNum(n, w) ==
  LET number == IF n < 0 THEN 2^w + n ELSE n
      size == BitwidthToBytes(w)
  IN  {[i \in 1..size |-> (m \div 2^(8 * (size - i))) % 256] :
         m \in {m \in {number} : n >= -(2^(w - 1)) /\ m < 2^w}}

DecodeNum(bytes) ==
  LET value[i \in 0..Len(bytes)] == IF i = 0 THEN 0 ELSE 256 * value[i - 1] + bytes[i]
  IN  value[Len(bytes)]

\* A list of one element stands for the element; the type is inferred and only
\* the number of bytes is checked.
Encode(x, w) ==
  LET v == IF x.type = "list" /\ Len(x.items) = 1 THEN x.items[1] ELSE x
  IN  {bytes \in CASE v.type = "int" -> EncodeNum(v.n, w)
                   [] v.type \in {"mac", "ip"} -> {v.bytes}
                   [] OTHER -> {} :
         Len(bytes) = BitwidthToBytes(w)}

\* Tables and actions are looked up by name or by alias ...
Get(entities, name) == {o \in entities : name \in {o.name, o.alias}}

\* ... match fields and parameters by the full name of their table or action.
GetMatchField(info, table, field) ==
  {t.fields[field] : t \in {t \in info.tables : t.name = table /\ field \in DOMAIN t.fields}}

GetActionParam(info, action, param) ==
  {a.params[param] : a \in {a \in info.actions : a.name = action /\ param \in DOMAIN a.params}}

IsPair(value) == value.type = "list" /\ Len(value.items) > 1

\* A prefix length is taken as it is; other matches encode all their parts.
FieldMatch(mf, value) ==
  CASE mf.type = "EXACT" -> {<<v>> : v \in Encode(value, mf.bits)}
    [] mf.type = "LPM" /\ IsPair(value) ->
         {<<v, value.items[2].n>> : v \in Encode(value.items[1], mf.bits)}
    [] mf.type \in {"TERNARY", "RANGE"} /\ IsPair(value) ->
         Encode(value.items[1], mf.bits) \X Encode(value.items[2], mf.bits)
    [] OTHER -> {}

\* The one function that f's results allow, if there is one.
Resolved(S, f(_)) ==
  {[x \in S |-> CHOOSE y \in f(x) : TRUE] : z \in {z \in {0} : \A x \in S : f(x) # {}}}

Matches(info, e) ==
  LET match(f) == UNION {FieldMatch(mf, e.match[f]) : mf \in GetMatchField(info, e.table, f)}
  IN  Resolved(DOMAIN e.match, match)

Params(info, e) ==
  LET param(p) == UNION {Encode(e.action_params[p], bits) :
                           bits \in GetActionParam(info, e.action_name, p)}
  IN  Resolved(DOMAIN e.action_params, param)

\* An entry on the wire: the key that makes it the same entry to the switch,
\* and what it does.
BuildTableEntry(info, e) ==
  {[update |-> IF e.default_action THEN "MODIFY" ELSE "INSERT",
    key |-> IF e.default_action THEN <<t.name, "default">> ELSE <<t.name, m, e.priority>>,
    does |-> <<a.name, p>>] :
      t \in Get(info.tables, e.table), a \in Get(info.actions, e.action_name),
      m \in Matches(info, e), p \in Params(info, e)}

BuildMulticastGroupEntry(e) ==
  [update |-> "INSERT", key |-> <<"multicast_group", e.id>>, does |-> <<"replicas", e.replicas>>]

BuildCloneSessionEntry(e) ==
  [update |-> "INSERT", key |-> <<"clone_session", e.id>>, does |-> <<"replicas", e.replicas>>]

\* validateTableEntry: only an entry without a priority has its fields looked
\* up, and none of them may need one.
ValidateTableEntry(info, e) ==
  e.priority = 0 =>
    \A f \in DOMAIN e.match :
      \E mf \in GetMatchField(info, e.table, f) : mf.type \notin {"TERNARY", "RANGE"}

\* What program_switch sends for an entry.
Wire(info, e) ==
  CASE e.kind = "table" -> {w \in BuildTableEntry(info, e) : ValidateTableEntry(info, e)}
    [] e.kind = "multicast" -> {BuildMulticastGroupEntry(e)}
    [] e.kind = "clone" -> {BuildCloneSessionEntry(e)}

-----------------------------------------------------------------------------
\* A number is encoded exactly if it fits, in as many bytes as its bits take, and
\* read back it is the number or its two's complement.
EncodesFaithfully(n, w) ==
  LET fits == n < 2^w /\ 2 * n >= -(2^w)
  IN  /\ (EncodeNum(n, w) = {} <=> ~fits)
      /\ \A bytes \in EncodeNum(n, w) :
           /\ w \in (8 * Len(bytes) - 7)..(8 * Len(bytes))
           /\ \A i \in DOMAIN bytes : bytes[i] \in 0..255
           /\ DecodeNum(bytes) = IF n < 0 THEN n + 2^w ELSE n
=============================================================================
