-------------------------------- MODULE Bake --------------------------------
(***************************************************************************)
(* ReadTargets (bake/bake.go): from the definitions of targets and groups, *)
(* the names on the command line and the overrides of --set to the targets *)
(* that are built.  A target has one field for each way in which Merge     *)
(* combines values: a scalar (network), a list that is replaced            *)
(* (platforms), lists that are extended (filter is no-cache-filter, and    *)
(* ents the entitlements), a map (contexts) and the outputs.  These are a  *)
(* slice of pointers: targets that inherit them share the array and its    *)
(* entries, which mem holds with the attribute push of every entry.        *)
(*                                                                         *)
(* An optional value is a sequence of at most one element.  A context is   *)
(* <<>> (empty), <<"image">> or <<"target", name>>.  An entry is <<owner,  *)
(* type>>, <<owner, "image", "push">> when it has the attribute push=true,  *)
(* or <<owner, type, name>> when resolving the name made it.  No list has   *)
(* two equal entries and no entry of type docker a destination.            *)
(*                                                                         *)
(* Go ranges over a map in any order: operators that do so yield the set   *)
(* of what may come out.                                                   *)
(***************************************************************************)
EXTENDS Naturals, Sequences, FiniteSets, SequencesExt, Reachability

CONSTANTS
    Definitions,   \* what may be in the files: sequences of targets
    GroupLists,    \* and of groups
    Requests,      \* the names on the command line
    OverrideLists  \* sequences of [pattern, key, val]

NoContexts == [k \in {} |-> <<>>]
Blank == [inherits |-> <<>>, network |-> <<>>, platforms |-> <<>>, filter |-> {},
          contexts |-> NoContexts, ents |-> {}, outputs |-> <<>>, linked |-> FALSE]

Or(new, old) == IF new = <<>> THEN old ELSE new

firstWins(t, u) == \* mutant: a value that is there is not replaced
    [t EXCEPT !.network = Or(@, u.network), !.platforms = Or(u.platforms, @), !.filter = @ \cup u.filter,
              !.contexts = u.contexts @@ @, !.ents = @ \cup u.ents, !.outputs = Or(u.outputs, @),
              !.inherits = @ \o u.inherits]

Merge(t, u) ==
    [t EXCEPT !.network = Or(u.network, @), !.platforms = Or(u.platforms, @), !.filter = @ \cup u.filter,
              !.contexts = u.contexts @@ @, !.ents = @ \cup u.ents, !.outputs = Or(u.outputs, @),
              !.inherits = @ \o u.inherits]

normalize(t) ==
    [t EXCEPT !.ents = @ \cup IF t.network = <<"host">> THEN {"network.host"} ELSE {},
              !.contexts = [k \in {x \in DOMAIN @ : @[x] # <<>>} |-> @[k]],
              !.outputs = IF @ # <<>> /\ @[2] = 0 THEN <<>> ELSE @]

dedupSlice(s) == FoldLeft(LAMBDA acc, x : IF Contains(acc, x) THEN acc ELSE Append(acc, x), <<>>, s)

\* dedupeConfig: definitions of the same target are merged in their order.
dedupeConfig(defs) ==
    LET Add(c, d) == (d.name :> IF d.name \in DOMAIN c THEN Merge(c[d.name], d.def) ELSE d.def) @@ c
    IN  FoldLeft(Add, [n \in {} |-> Blank], defs)

-----------------------------------------------------------------------------
expandTargets(c, pattern) ==
    IF pattern \in DOMAIN c THEN {pattern} ELSE IF pattern = "*" THEN DOMAIN c ELSE {}

\* newOverrides: some keys collect their values in a list, the others keep
\* the last one.
ListKeys == {"platform", "network", "entitlements", "output"}
NoOverride == [value |-> "", arr |-> <<>>]

newOverrides(c, list) ==
    LET Set(os, key, val) ==
            LET o == IF key \in DOMAIN os THEN os[key] ELSE NoOverride
            IN  (key :> IF key \in ListKeys THEN [o EXCEPT !.arr = Append(@, val)] ELSE [o EXCEPT !.value = val]) @@ os
        Add(m, v) == [n \in DOMAIN c |-> IF n \in expandTargets(c, v.pattern) THEN Set(m[n], v.key, v.val) ELSE m[n]]
    IN  FoldLeft(Add, [n \in DOMAIN c |-> [k \in {} |-> NoOverride]], list)

\* A slice is <<>> (nil) or <<array, length>>; an array has the name of what it
\* held first, and as many elements as its capacity.  append writes into an array
\* that has room, and otherwise copies to one of twice the size.
elems(s, mem) == IF s = <<>> THEN <<>> ELSE SubSeq(mem.array[s[1]], 1, s[2])

makeSlice(es, mem) ==
    [slice |-> <<es, Len(es)>>,
     mem |-> [array |-> (es :> es) @@ mem.array, push |-> [e \in ToSet(es) |-> "unset"] @@ mem.push]]

appendTo(s, mem, e) ==
    LET n == Len(elems(s, mem))
        grown == Append(elems(s, mem), e)
    IN  IF s # <<>> /\ n < Len(mem.array[s[1]])
        THEN [slice |-> <<s[1], n + 1>>, mem |-> [mem EXCEPT !.array[s[1]][n + 1] = e]]
        ELSE [slice |-> <<grown, n + 1>>,
              mem |-> [mem EXCEPT !.array =
                          (grown :> [i \in 1..Max({1, 2 * n}) |-> IF i <= n + 1 THEN grown[i] ELSE <<>>]) @@ @]]

\* The loop that swaps entries of type registry with the last one, in place.
RECURSIVE dropRegistry(_, _, _)
dropRegistry(array, len, i) ==
    IF i > len THEN <<array, len>>
    ELSE IF array[i][2] = "registry"
    THEN dropRegistry([array EXCEPT ![i] = array[len], ![len] = array[i]], len - 1, i)
    ELSE dropRegistry(array, len, i + 1)

dropsOnly(s, mem, on, fresh) == \* mutant: entries of type image keep their attribute
    LET r == dropRegistry(mem.array[s[1]], s[2], 1)
    IN  IF on = "true" /\ \A e \in ToSet(elems(s, mem)) : e[2] = "docker"
        THEN appendTo(s, [mem EXCEPT !.push = (fresh :> "true") @@ @], fresh)
        ELSE IF s = <<>> \/ on = "true" THEN [slice |-> s, mem |-> mem]
        ELSE [slice |-> <<s[1], r[2]>>, mem |-> [mem EXCEPT !.array[s[1]] = r[1]]]

setPushOverride(s, mem, on, fresh) ==
    LET images == {e \in ToSet(elems(s, mem)) : e[2] = "image"}
        marked == [mem EXCEPT !.push = [e \in images |-> on] @@ @]
        r == dropRegistry(mem.array[s[1]], s[2], 1)
    IN  IF on = "false"
        THEN IF s = <<>> THEN [slice |-> s, mem |-> mem]
             ELSE [slice |-> <<s[1], r[2]>>, mem |-> [marked EXCEPT !.array[s[1]] = r[1]]]
        ELSE IF \A e \in ToSet(elems(s, mem)) : e[2] = "docker"
        THEN appendTo(s, [mem EXCEPT !.push = (fresh :> "true") @@ @], fresh)
        ELSE [slice |-> s, mem |-> marked]

setLoadOverride(s, mem, on, fresh) ==
    IF on = "true" /\ \A e \in ToSet(elems(s, mem)) : e[2] \in {"image", "registry", "oci"}
    THEN appendTo(s, mem, fresh)
    ELSE [slice |-> s, mem |-> mem]

\* The overrides of the outputs, one after the other; entry gives the entries
\* that they make.
OutputKeys == {"output", "push", "load"}
RECURSIVE overrideOutputs(_, _, _, _, _)
overrideOutputs(s, mem, os, keys, entry) ==
    LET by(k) == CASE k = "output" -> makeSlice([i \in DOMAIN os[k].arr |-> entry[os[k].arr[i]]], mem)
                   [] k = "push" -> setPushOverride(s, mem, os[k].value, entry["image"])
                   [] k = "load" -> setLoadOverride(s, mem, os[k].value, entry["docker"])
    IN  IF keys = {} THEN {[slice |-> s, mem |-> mem]}
        ELSE UNION {overrideOutputs(by(k).slice, by(k).mem, os, keys \ {k}, entry) : k \in keys}

AddOverrides(t, os, mem, entry) ==
    LET Has(k) == k \in DOMAIN os
        other == [t EXCEPT !.network = IF Has("network") THEN <<os["network"].value>> ELSE @,
                           !.platforms = IF Has("platform") THEN <<ToSet(os["platform"].arr)>> ELSE @,
                           !.filter = IF Has("no-cache-filter") THEN ToSet(os["no-cache-filter"].arr) ELSE @,
                           !.ents = @ \cup IF Has("entitlements") THEN ToSet(os["entitlements"].arr) ELSE {}]
    IN  {[target |-> [other EXCEPT !.outputs = r.slice], mem |-> r.mem] :
            r \in overrideOutputs(t.outputs, mem, os, OutputKeys \cap DOMAIN os, entry)}

-----------------------------------------------------------------------------
\* target: a target after inheritance and overrides.  visited holds <<>> for a
\* target that is under way; inheriting it again has no effect.
inheritAll(t, visited, names) ==
    FoldLeft(LAMBDA acc, n : IF visited[n] = <<>> THEN acc ELSE Merge(acc, visited[n][1]), t, names)

OutputTypes == {"image", "registry", "docker", "local"}

RECURSIVE target(_, _, _, _, _)
target(c, o, root, st, name) ==
    IF name \in DOMAIN st.visited \/ st.failed THEN {st}
    ELSE IF name \notin DOMAIN c THEN {[st EXCEPT !.failed = TRUE]}
    ELSE LET under == [st EXCEPT !.visited = (name :> <<>>) @@ @]
             inherited == FoldLeft(LAMBDA ss, n : UNION {target(c, o, root, s, n) : s \in ss}, {under}, c[name].inherits)
             entry == [type \in OutputTypes |-> <<name, type, root>>]
             merged(s) == Merge(inheritAll(Blank, s.visited, c[name].inherits), c[name])
         IN  UNION {IF s.failed THEN {s}
                    ELSE {[s EXCEPT !.visited[name] = <<normalize(over.target)>>, !.mem = over.mem] :
                            over \in AddOverrides(merged(s), o[name], s.mem, entry)} : s \in inherited}

ResolveTarget(c, o, mem, name) ==
    target(c, o, name, [visited |-> [n \in {} |-> <<>>], mem |-> mem, failed |-> FALSE], name)

Resolved(r, name) == [r.visited[name][1] EXCEPT !.inherits = <<>>]

\* group: the targets and the groups that a name stands for.  A name that
\* yields no targets, because it is under way or empty, stands for itself.
forgetsSelf(t, ts) == ts \* mutant: it stands for nothing
Members(t, ts) == IF ts = <<>> THEN <<t>> ELSE ts

RECURSIVE group(_, _, _)
group(gs, st, name) ==
    IF name \in DOMAIN st.visited
    THEN [st EXCEPT !.targets = st.visited[name].targets, !.groups = st.visited[name].groups]
    ELSE IF name \notin DOMAIN gs THEN [st EXCEPT !.targets = <<name>>, !.groups = <<>>]
    ELSE LET Visit(s, t) ==
                 LET r == group(gs, s.st, t)
                 IN  [st |-> r, targets |-> s.targets \o Members(t, r.targets), groups |-> s.groups \o r.groups]
             empty == [targets |-> <<>>, groups |-> <<>>]
             all == FoldLeft(Visit, [st |-> [st EXCEPT !.visited = (name :> empty) @@ @],
                                     targets |-> <<>>, groups |-> <<name>>], gs[name])
         IN  [visited |-> (name :> [targets |-> all.targets, groups |-> all.groups]) @@ all.st.visited,
              targets |-> all.targets, groups |-> all.groups]

ResolveGroup(gs, name) ==
    LET r == group(gs, [visited |-> [n \in {} |-> <<>>], targets |-> <<>>, groups |-> <<>>], name)
    IN  [targets |-> dedupSlice(r.targets), groups |-> dedupSlice(r.groups)]

-----------------------------------------------------------------------------
\* loadLinks: the targets that the contexts of a target name are resolved and
\* added, as linked targets that export nothing.
Links(t) == {t.contexts[k][2] : k \in {x \in DOMAIN t.contexts : Len(t.contexts[x]) = 2}}

inheritsNothing(m, name, x) == m \* mutant: the entitlements of a linked target stay with it
InheritEntitlements(m, name, x) == [m EXCEPT ![name].ents = @ \cup m[x].ents]

PlatformsFit(t, u) ==
    t.platforms # <<>> /\ u.platforms # <<>> /\ Cardinality(t.platforms[1]) > 1 /\ Cardinality(u.platforms[1]) > 1
        => t.platforms[1] \subseteq u.platforms[1]

RECURSIVE loadLinks(_, _, _, _, _), followLinks(_, _, _, _, _, _)
loadLinks(c, o, st, name, path) == followLinks(c, o, st, name, path, Links(st.m[name]))

\* The loop over the contexts, of which those to xs are left.
followLinks(c, o, st, name, path, xs) ==
    LET Add(x, r) ==
            LET out == makeSlice(<<<<x, "cacheonly">>>>, r.mem)
            IN  IF r.failed THEN [st EXCEPT !.failed = TRUE]
                ELSE [st EXCEPT !.m = (x :> [Resolved(r, x) EXCEPT !.outputs = out.slice, !.linked = TRUE]) @@ @,
                                !.mem = out.mem]
        Added(x) == IF x \in DOMAIN st.m THEN {st} ELSE {Add(x, r) : r \in ResolveTarget(c, o, st.mem, x)}
        Followed(x) == UNION {IF s.failed THEN {s} ELSE loadLinks(c, o, s, x, path \cup {name}) : s \in Added(x)}
        Join(x, s) ==
            IF s.failed THEN s
            ELSE [s EXCEPT !.m = InheritEntitlements(@, name, x), !.failed = ~PlatformsFit(s.m[name], s.m[x])]
        Load(x) == IF x \in path \cup {name} THEN {[st EXCEPT !.failed = TRUE]} ELSE {Join(x, s) : s \in Followed(x)}
    IN  IF st.failed \/ xs = {} THEN {st}
        ELSE UNION {UNION {followLinks(c, o, s, name, path, xs \ {x}) : s \in Load(x)} : x \in xs}

-----------------------------------------------------------------------------
VARIABLES
    files,     \* [defs, groups, overrides]: what there is to read
    names,     \* the names on the command line
    phase,     \* "parse", "resolve", "default", "link", "done" or "failed"
    c, o,      \* the targets by name, and their overrides
    next,      \* the name that is resolved next
    m,         \* targetsMap
    groups,    \* groupsMap
    todo,      \* targets whose links are not loaded
    mem        \* the arrays of outputs, and the attribute push of the entries

vars == <<files, names, phase, c, o, next, m, groups, todo, mem>>

\* The groups after dedupeConfig: of several with one name the first is found.
Groups == [g \in {x.name : x \in ToSet(files.groups)} |->
             dedupSlice(SelectSeq(files.groups, LAMBDA x : x.name = g)[1].targets)]
written(e) == IF e = <<e[1], "image", "push">> THEN "true" ELSE "unset"
Outputs == {d.def.outputs : d \in ToSet(files.defs)} \ {<<>>}

Init ==
    /\ files \in [defs : Definitions, groups : GroupLists, overrides : OverrideLists] /\ names \in Requests
    /\ phase = "parse" /\ c = [n \in {} |-> Blank] /\ o = c /\ next = 1
    /\ m = c /\ groups = [g \in {} |-> <<>>] /\ todo = {}
    /\ mem = [array |-> [es \in Outputs |-> es], push |-> [e \in UNION {ToSet(es) : es \in Outputs} |-> written(e)]]

\* ParseFiles and newOverrides.  A pattern must match.
asSlice(d) == [d EXCEPT !.def.outputs = IF @ = <<>> THEN @ ELSE <<@, Len(@)>>]

Parse ==
    /\ phase = "parse"
    /\ LET parsed == dedupeConfig([i \in DOMAIN files.defs |-> asSlice(files.defs[i])])
           matched == \A v \in ToSet(files.overrides) : expandTargets(parsed, v.pattern) # {}
       IN  /\ c' = parsed /\ o' = newOverrides(parsed, files.overrides)
           /\ phase' = IF matched THEN "resolve" ELSE "failed"
    /\ UNCHANGED <<files, names, next, m, groups, todo, mem>>

\* One name of the command line.
ResolveName ==
    /\ phase = "resolve" /\ next <= Len(names)
    /\ \E g \in {ResolveGroup(Groups, names[next])} :
           LET AddTo(s, t, r) == IF r.failed THEN [s EXCEPT !.failed = TRUE]
                                 ELSE [s EXCEPT !.m = (t :> Resolved(r, t)) @@ @, !.mem = r.mem]
               Add(ss, t) == UNION {IF s.failed THEN {s}
                                    ELSE {AddTo(s, t, r) : r \in ResolveTarget(c, o, s.mem, t)} : s \in ss}
           IN  /\ groups' = [x \in ToSet(g.groups) |-> Groups[x]] @@ groups
               /\ \E all \in FoldLeft(Add, {[m |-> m, mem |-> mem, failed |-> FALSE]}, g.targets) :
                      m' = all.m /\ mem' = all.mem /\ phase' = IF all.failed THEN "failed" ELSE phase
    /\ next' = next + 1
    /\ UNCHANGED <<files, names, c, o, todo>>

\* The group default lists what was asked for, once and sorted: the order of
\* names is that of SetToSeq.
AddDefault(gs, ns) ==
    LET Add(acc, n) ==
            IF n = "default" /\ "default" \in DOMAIN acc THEN acc
            ELSE ("default" :> Append(IF "default" \in DOMAIN acc THEN acc["default"] ELSE <<>>, n)) @@ acc
        all == FoldLeft(Add, gs, ns)
    IN  IF "default" \in DOMAIN all THEN [all EXCEPT !["default"] = SetToSeq(ToSet(@))] ELSE all

SetDefault ==
    /\ phase = "resolve" /\ next > Len(names)
    /\ groups' = AddDefault(groups, names)
    /\ phase' = "link" /\ todo' = DOMAIN m
    /\ UNCHANGED <<files, names, c, o, next, m, mem>>

\* The loop over targetsMap, in any order.  It may or may not come to the
\* targets that it adds, which makes no difference.
Link(n) ==
    /\ phase = "link" /\ n \in todo
    /\ \E r \in loadLinks(c, o, [m |-> m, mem |-> mem, failed |-> FALSE], n, {}) :
           m' = r.m /\ mem' = r.mem /\ phase' = IF r.failed THEN "failed" ELSE phase
    /\ todo' = todo \ {n}
    /\ UNCHANGED <<files, names, c, o, next, groups>>

Finish ==
    /\ phase = "link" /\ todo = {}
    /\ phase' = "done"
    /\ UNCHANGED <<files, names, c, o, next, m, groups, todo, mem>>

Next == Parse \/ ResolveName \/ SetDefault \/ Finish \/ \E n \in DOMAIN m : Link(n)

Spec == Init /\ [][Next]_vars

-----------------------------------------------------------------------------
InGroup == [g \in DOMAIN Groups |-> ToSet(Groups[g])]
Inherited == [n \in DOMAIN c |-> ToSet(c[n].inherits)]
Requested == UNION {ToSet(ResolveGroup(Groups, names[i]).targets) : i \in DOMAIN names}

\* A group stands for every target that it reaches through other groups, also
\* when groups contain each other, and for nothing else: only a group on a
\* cycle or without members stands for its own name.  The group default that
\* ReadTargets returns stands for the targets that were asked for.
GroupsExpanded ==
    /\ phase = "resolve" => \A g \in DOMAIN Groups :
        LET r == ResolveGroup(Groups, g)
            reached == Reach({g}, InGroup)
        IN  /\ ToSet(r.groups) = reached \cap DOMAIN Groups
            /\ reached \ DOMAIN Groups \subseteq ToSet(r.targets)
            /\ g \in InGroup[g] => g \in ToSet(r.targets)
            /\ \A t \in ToSet(r.targets) :
                   t \in reached /\ (t \in DOMAIN Groups => Cyclic(t, InGroup) \/ Groups[t] = <<>>)
    /\ phase = "done" =>
        ToSet(ResolveGroup(groups, "default").targets) \cap DOMAIN c = {n \in DOMAIN m : ~m[n].linked}

\* The target that decides a field: the target itself when it sets or overrides
\* the field, else what decides it for the last of the targets it inherits.
OverrideKey == [network |-> "network", platforms |-> "platform", outputs |-> "output"]
RECURSIVE Decides(_, _)
Decides(n, f) ==
    LET ds == SelectSeq([i \in DOMAIN c[n].inherits |-> Decides(c[n].inherits[i], f)], LAMBDA d : d # "")
    IN  IF OverrideKey[f] \in DOMAIN o[n] \/ c[n][f] # <<>> THEN n
        ELSE IF ds = <<>> THEN "" ELSE ds[Len(ds)]

\* Where inheritance has no cycle, target gives a field the value of the target
\* that decides it, although it merges level by level and keeps what it has
\* visited, and collects the entitlements of everything inherited.
LastInheritedWins ==
    phase = "resolve" /\ (\A n \in DOMAIN c : ~Cyclic(n, Inherited) /\ Inherited[n] \subseteq DOMAIN c) =>
        \A n \in DOMAIN c : \A r \in ResolveTarget(c, o, mem, n) :
            LET t == Resolved(r, n)
                d == [f \in {"network", "platforms"} |-> Decides(n, f)]
            IN  /\ \A f \in DOMAIN d :
                       IF d[f] = "" THEN t[f] = <<>>
                       ELSE OverrideKey[f] \notin DOMAIN o[d[f]] => t[f] = c[d[f]][f]
                /\ d["platforms"] # "" /\ "platform" \in DOMAIN o[d["platforms"]] =>
                       t.platforms = <<ToSet(o[d["platforms"]]["platform"].arr)>>
                /\ UNION {c[x].ents : x \in Reach({n}, Inherited)} \subseteq t.ents

\* When ReadTargets returns, every target that a context names is there, no
\* chain of contexts comes back to its start, entitlements have come all the
\* way up, and exactly the targets that nobody asked for are linked.  It fails for
\* one of four reasons only: a pattern without a match, a target that is not
\* defined, contexts in a circle, or a target with several platforms that uses
\* one with several others.
LinksResolved ==
    LET linked == [n \in DOMAIN m |-> Links(m[n])]
        full == [n \in DOMAIN c |-> CHOOSE r \in ResolveTarget(c, o, mem, n) : TRUE]
        linksTo == [n \in {x \in DOMAIN c : ~full[x].failed} |-> Links(Resolved(full[n], n))]
        used == Reach(Requested, linksTo)
        several == [n \in DOMAIN linksTo |->
                      UNION {p \in ToSet(Resolved(full[n], n).platforms) : Cardinality(p) > 1}]
    IN  /\ phase = "done" => \A n \in DOMAIN m :
            /\ linked[n] \subseteq DOMAIN m /\ ~Cyclic(n, linked)
            /\ \A x \in Reach({n}, linked) : m[x].ents \subseteq m[n].ents
            /\ m[n].linked <=> n \notin Requested
        /\ phase = "failed" =>
            \/ \E v \in ToSet(files.overrides) : expandTargets(c, v.pattern) = {}
            \/ ~(used \subseteq DOMAIN linksTo)
            \/ \E n \in used : Cyclic(n, linksTo)
            \/ \E n \in used : \E x \in linksTo[n] : several[x] # {} /\ ~(several[n] \subseteq several[x])

\* Targets that may share outputs: they inherit a target in common.
Related(n) == {x \in DOMAIN c : Reach({x}, Inherited) \cap Reach({n}, Inherited) # {}}

pushes(e) == e[2] = "registry" \/ (e[2] = "image" /\ mem.push[e] = "true")

\* Overriding push takes effect, in whatever order the overrides of a target are
\* applied, although targets share the array and the entries of their outputs and
\* setPushOverride writes to both: with false nothing of the target is pushed, and
\* with true it is unless it has an output of another kind, a directory say, which
\* setPushOverride leaves alone.  The overrides of related targets must agree, and
\* the target have no override of output as well, which would replace its outputs
\* before or after.  Outputs that no override of a related target names are those
\* of the files.
PushOverridden ==
    phase = "done" => \A n \in {x \in DOMAIN m : ~m[x].linked} :
        LET es == elems(m[n].outputs, mem)
            said == {o[x]["push"].value : x \in {y \in Related(n) : "push" \in DOMAIN o[y]}}
            own == "push" \in DOMAIN o[n] /\ "output" \notin DOMAIN o[n]
        IN  /\ own /\ said = {"false"} => \A e \in ToSet(es) : ~pushes(e)
            /\ own /\ said = {"true"} => \E e \in ToSet(es) : pushes(e) \/ e[2] \notin {"docker", "image"}
            /\ (\A x \in Related(n) : OutputKeys \cap DOMAIN o[x] = {} /\ ~Cyclic(x, Inherited)) =>
                   /\ es = IF Decides(n, "outputs") = "" THEN <<>> ELSE c[Decides(n, "outputs")].outputs[1]
                   /\ \A e \in ToSet(es) : mem.push[e] = written(e)

\* The outputs of a target are those of the files unless the overrides name the
\* target or one that it inherits.  Not so: setPushOverride writes to what others
\* inherit too.
OthersKeepOutputs ==
    phase = "done" => \A n \in {x \in DOMAIN m : ~m[x].linked} :
        (\A x \in Reach({n}, Inherited) : OutputKeys \cap DOMAIN o[x] = {} /\ ~Cyclic(x, Inherited)) =>
            \A e \in ToSet(elems(m[n].outputs, mem)) : mem.push[e] = written(e)

\* --set of a field that the documentation lists takes effect: the stages of
\* no-cache-filter are those of the overrides.
OverrideTakesEffect ==
    phase = "done" => \A n \in DOMAIN m : \A v \in ToSet(files.overrides) :
        v.key = "no-cache-filter" /\ n \in expandTargets(c, v.pattern) => v.val \in m[n].filter
=============================================================================
