------------------------- MODULE MCResourceManager -------------------------
(***************************************************************************)
(* Instances of ResourceManager for TLC: a component a, a component b that *)
(* may depend on a, and a service s that may depend on b.                  *)
(***************************************************************************)
EXTENDS ResourceManager

AB == {"a", "b"}
ABS == {"a", "b", "s"}
UnknownAB == {"unk_a", "unk_b"}
UnknownABS == UnknownAB \cup {"unk_s"}
NamesAB == AB \cup UnknownAB
NamesABS == ABS \cup UnknownABS
AsUnknown == [a |-> "unk_a", b |-> "unk_b", s |-> "unk_s"]
AsUnknownAB == [a |-> "unk_a", b |-> "unk_b"]

Cfg(v, d) == [ver |-> v, deps |-> d]
Zero == Cfg(0, {})

(* a has two versions; b and s depend on the one before them, or on none.   *)
MayBe == [a |-> {Cfg(1, {}), Cfg(2, {})},
          b |-> {Cfg(1, {}), Cfg(1, {"a"})},
          s |-> {Cfg(1, {"b"}), Cfg(2, {"b"})}]

ConfigsOf(S) ==
  UNION {{c \in [T -> UNION {MayBe[n] : n \in T}] : \A n \in T : c[n] \in MayBe[n]} : T \in SUBSET S}

(* What a node of the graph holds.                                          *)
NodeValues ==
  Objects \cup [real : Objects \cup {Nil}, cfg : {Zero} \cup UNION {MayBe[n] : n \in ABS}]

ConfigsAB == ConfigsOf(AB)
ConfigsABS == ConfigsOf(ABS)
=============================================================================
