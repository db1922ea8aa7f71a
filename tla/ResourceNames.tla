---------------------------- MODULE ResourceNames ----------------------------
(***************************************************************************)
(* Names and lists of the page: lib/resource.ts, stringToResourceName and  *)
(* loadCurrentOps of app.vue, namesToPrettySelect of do-command.vue.  They *)
(* are pure; the state is the robot's last answer they are applied to.  A  *)
(* string is a sequence of words, "/" and ":".                             *)
(***************************************************************************)
EXTENDS Integers, Sequences, FiniteSets, TLC

Sq == INSTANCE SequencesExt

CONSTANTS
  Types,       \* [namespace, type, subtype] of resources
  Names,       \* names of resources: sequences of words and ":" and "/"
  Order,       \* the place of each word and separator in the order of strings
  Starts,      \* seconds at which an operation may have started
  MaxList,     \* bound: length of a list
  Null         \* no start time; an error thrown

VARIABLES
  resources,   \* the list of resources
  ops          \* start times of the list of operations

vars == <<resources, ops>>

Resource == [of : Types, name : Names]
Now == 1 + CHOOSE t \in Starts : \A u \in Starts : u <= t

Lists(S) == UNION {[1 .. n -> S] : n \in 0 .. MaxList}

TypeOK == resources \in Lists(Resource) /\ ops \in Lists(Starts \cup {Null})

-----------------------------------------------------------------------------
(* Strings.                                                                *)

\* s.split(d)
Split(s, d) ==
  LET cuts == Sq!SetToSortSeq({0, Len(s) + 1} \cup {i \in DOMAIN s : s[i] = d}, <)
  IN  [k \in 1 .. Len(cuts) - 1 |-> SubSeq(s, cuts[k] + 1, cuts[k + 1] - 1)]

Before(s, t) ==
  \E i \in DOMAIN t :
    /\ \A j \in 1 .. i - 1 : j \in DOMAIN s /\ s[j] = t[j]
    /\ i \in DOMAIN s => Order[s[i]] < Order[t[i]]

resourceNameToSubtypeString(r) ==
  <<r.of.namespace, ":", r.of.type, ":", r.of.subtype>>

resourceNameToString_bug(r) == resourceNameToSubtypeString(r) \o r.name
resourceNameToString(r) ==
  resourceNameToSubtypeString(r) \o (IF r.name = <<>> THEN <<>> ELSE <<"/">> \o r.name)

\* Null stands for the errors it throws.
stringToResourceName(nameStr) ==
  LET parts == Split(nameStr, "/")
      of    == Split(parts[1], ":")
  IN  IF Len(of) # 3 THEN Null
      ELSE [of |-> [namespace |-> of[1][1], type |-> of[2][1], subtype |-> of[3][1]],
            name |-> IF Len(parts) = 1 THEN <<>> ELSE parts[2]]

-----------------------------------------------------------------------------
(* Lists.                                                                  *)

\* sortByName is negative.
SortedBefore_bug(a, b) == Before(a.name, b.name)
SortedBefore(a, b) ==
  LET key(r) == <<r.name, <<r.of.subtype>>, <<r.of.type>>, <<r.of.namespace>>>>
  IN  \E i \in 1 .. 4 :
        Before(key(a)[i], key(b)[i]) /\ \A j \in 1 .. i - 1 : key(a)[j] = key(b)[j]

filterResources(list, of) ==
  SortSeq(SelectSeq(list, LAMBDA r : r.of = of), SortedBefore)

filterNonRemoteResources(list, of) ==
  SelectSeq(filterResources(list, of), LAMBDA r : \A i \in DOMAIN r.name : r.name[i] # ":")

filterComponentsWithNames(list) ==
  SortSeq(SelectSeq(list, LAMBDA r : r.name # <<>> /\ r.of.type = "component"), SortedBefore)

Simple_bug(list, r) == TRUE
Simple(list, r) == Cardinality({i \in DOMAIN list : list[i].name = r.name}) = 1

\* The options of the select: the name if no other resource has it.
namesToPrettySelect(list) ==
  [i \in DOMAIN list |-> IF Simple(list, list[i]) THEN list[i].name
                         ELSE resourceNameToString(list[i])]

\* loadCurrentOps: the time since the start, -1 without one, and the order.
Elapsed(start) == IF start = Null THEN -1 ELSE Now - start

OpBefore_bug(e1, e2) == e1 < e2
OpBefore(e1, e2) == IF e1 = -1 \/ e2 = -1 THEN e2 < e1 ELSE e1 < e2

CurrentOps == SortSeq([i \in DOMAIN ops |-> Elapsed(ops[i])], OpBefore)

-----------------------------------------------------------------------------
\* Robots name each resource once.
Distinct(list) == \A i, j \in DOMAIN list : list[i] = list[j] => i = j

Init == resources = <<>> /\ ops = <<>>

Metadata ==
  /\ Len(resources) < MaxList /\ ops = <<>>
  /\ \E r \in Resource : resources' = Append(resources, r) /\ Distinct(resources')
  /\ UNCHANGED ops

Operations ==
  /\ Len(ops) < MaxList /\ resources = <<>>
  /\ \E t \in Starts \cup {Null} : ops' = Append(ops, t)
  /\ UNCHANGED resources

Next == Metadata \/ Operations

Spec == Init /\ [][Next]_vars

-----------------------------------------------------------------------------
(* Properties.                                                             *)

\* A resource read back from its string has its subtype, so that queryMetadata
\* sees which differences concern the status stream, and its name unless that
\* has a "/", and the read never throws.
NamesSurvive ==
  \A i \in DOMAIN resources :
    LET r == resources[i]  s == stringToResourceName(resourceNameToString(r)) IN
    /\ s # Null /\ s.of = r.of
    /\ (\A j \in DOMAIN r.name : r.name[j] # "/") => s = r

\* The options of the command select are distinct: the operator can tell all
\* the components apart, also when components share a name.
OptionsDistinct ==
  LET list == filterComponentsWithNames(resources)  o == namesToPrettySelect(list) IN
  \A i, j \in DOMAIN list : o[i] = o[j] => i = j

\* The lists do not depend on the order of the robot's answer, which ranges over
\* a Go map: the panels do not change places from one poll to the next.
PanelsKeepOrder ==
  \A p \in Permutations(DOMAIN resources) :
    LET again == [i \in DOMAIN resources |-> resources[p[i]]] IN
    /\ filterComponentsWithNames(again) = filterComponentsWithNames(resources)
    /\ \A t \in Types : filterNonRemoteResources(again, t)
                          = filterNonRemoteResources(resources, t)

\* The operations are listed by age with those without a start time at the
\* end ("move op with null start time to the back of the list", app.vue:396),
\* as long as the robot's clock is not ahead of the browser's.
NullStartLast ==
  \A i, j \in DOMAIN CurrentOps :
    i < j => \/ CurrentOps[j] = -1
             \/ CurrentOps[i] # -1 /\ CurrentOps[i] <= CurrentOps[j]

\* Deviation: the options of the select name the components.  Of two with the
\* same name the command is sent to the whole string.
OptionsAreNames ==
  LET list == filterComponentsWithNames(resources)  o == namesToPrettySelect(list) IN
  \A i \in DOMAIN list : o[i] = list[i].name

=============================================================================
