----------------------------- MODULE BridgeSteps -----------------------------
(***************************************************************************)
(* What a bridge call does with the handles of its process, step by step.  *)
(* A wrapper looks up what it was given, has the kernel side do the work,  *)
(* makes handles for what that made, in a batch that is kept as a whole or *)
(* not at all, and gives up at the first step that fails.                  *)
(*                                                                         *)
(* The calls are sets of paths, in ServicesCalls and SGXCalls: a path is   *)
(* the sequence of the steps of the call when nothing fails.               *)
(***************************************************************************)
EXTENDS Naturals, FiniteSets, SequencesExt, Functions, TLC

(* The objects nobody makes: the device, the heap all contexts share, the   *)
(* global event object, the timer and the host control memory.              *)
Global  == <<"DEV_NODE", "DEV_MEM_HEAP", "SHARED_EVENT_OBJECT", "SOC_TIMER", "MEM_INFO">>
Globals == DOMAIN Global

(* Everything a process has: its handles; the objects, made for themselves  *)
(* or as a part of others; those that are exported; whether the process is  *)
(* the server that initialises the device; and how far that server has come.*)
NothingYet(server) ==
    [handles |-> <<>>, exported |-> {}, init |-> FALSE, server |-> server,
     objects |-> [o \in Globals |-> [type |-> Global[o], parts |-> {}, own |-> FALSE]]]

Unused(f)     == CHOOSE i \in 1 .. Cardinality(DOMAIN f) + 1 : i \notin DOMAIN f
Without(f, S) == RestrictDomain(f, LAMBDA x : x \notin S)

-----------------------------------------------------------------------------
(* Steps.  A key is the type of a handle the call was given or has made.    *)
Batch(n)          == [do |-> "batch", n |-> n]
LookupAny(ts, as) == [do |-> "lookup", key |-> as, types |-> ts]
Lookup(t)         == LookupAny({t}, t)
LookupSub(t, of)  == [do |-> "sub", key |-> t, types |-> {t}, of |-> of]
Optional(t)       == [do |-> "optional", key |-> t, types |-> {t}]
Find(t)           == [do |-> "find", key |-> t]
KM                == [do |-> "km"]          \* it may fail, and changes nothing here
Missing(t)        == [do |-> "missing", key |-> t]  \* the kernel makes it only once
InitOnly          == [do |-> "initOnly"]
Server(from, to)  == [do |-> "server", from |-> from, to |-> to]
Creates(t, parts) == [do |-> "creates", key |-> t, parts |-> parts]
Shares(t, of)     == [do |-> "shares", key |-> t, of |-> of]
Absorbs(t, keys)  == [do |-> "absorbs", key |-> t, keys |-> keys]
Destroys(key)     == [do |-> "destroys", key |-> key]
Exports(key)      == [do |-> "exports", key |-> key]
Release(key)      == [do |-> "release", key |-> key]
Commit            == [do |-> "commit"]

(* Handles for what the call has made, at the top or under another; for a   *)
(* global object; for a part of what a handle names, if it has that; once   *)
(* more for what a handle names, beside or under that handle.               *)
(* PVRSRVAllocHandleNR does not say whether it failed.                      *)
NR(t, what, under, flags) ==
    [do |-> "name", key |-> t, what |-> what, under |-> under, flags |-> flags]
Made(t, flags)       == NR(t, "made", "", flags)
MadeUnder(t, key)    == NR(t, "made", key, {})
Whole(t)             == NR(t, "global", "", {"SHARED"})
Part(t, flags, key)  == NR(t, "part", key, flags)
Again(t, key)        == NR(t, "again", key, {"MULTI"})
Below(t, key)        == NR(t, "below", key, {"MULTI"})
Checked(step)        == [step EXCEPT !.do = "alloc"]
CheckedOrFreed(step) == [step EXCEPT !.do = "allocOrFree"]

NeverFails == {"optional", "name", "release", "commit"}

-----------------------------------------------------------------------------
(* A call that runs: the world, the handles it was given with their objects *)
(* (an exported object is given as such), and what it has.                  *)
Begin(world, args) ==
    [w |-> world, args |-> args, batch |-> 0, taken |-> 0, fresh |-> {}, made |-> 0,
     of |-> [k \in DOMAIN args |-> IF k = "EXPORTED" THEN args[k] ELSE world.handles[args[k]].object],
     failures |-> 0]

(* A handle and those under it; an object, its parts, and theirs.           *)
Family(hs, h) ==
    LET line[x \in DOMAIN hs] == {x} \cup IF hs[x].parent = 0 THEN {} ELSE line[hs[x].parent]
    IN  {x \in DOMAIN hs : h \in line[x]}
AllParts(os, o) == LET some == {o} \cup os[o].parts IN some \cup UNION {os[p].parts : p \in some}

\* Mutant of ReleaseHandle: the handles under it stay.
ReleaseHandleAlone(w, h) == [w EXCEPT !.handles = Without(@, {h})]

ReleaseHandle(w, h) == [w EXCEPT !.handles = Without(@, Family(@, h))]

(* What was made for itself goes, with the parts no other has, and with the *)
(* kernel's handle if it is exported.                                       *)
Destroy(w, o) ==
    LET kept == UNION {AllParts(w.objects, x) :
                          x \in {y \in DOMAIN w.objects : y # o /\ (w.objects[y].own \/ y \in Globals)}}
    IN  [w EXCEPT !.objects = RestrictDomain(@, LAMBDA x : x \in kept), !.exported = @ \ {o}]

Add(w, t, parts, own) ==
    [w EXCEPT !.objects = (Unused(@) :> [type |-> t, parts |-> parts, own |-> own]) @@ @]

(* A new object with new parts; a buffer has a sync info.                   *)
Create(w, t, types) ==
    LET addPart(acc, x) ==
            LET buffer == x \in {"DISP_BUFFER", "BUF_BUFFER"}
                W == IF buffer THEN Add(acc.w, "SYNC_INFO", {}, FALSE) ELSE acc.w
            IN  [w     |-> Add(W, x, IF buffer THEN {Unused(acc.w.objects)} ELSE {}, FALSE),
                 parts |-> acc.parts \cup {Unused(W.objects)}]
        all == FoldLeft(addPart, [w |-> w, parts |-> {}], SetToSeq(types))
    IN  Add(all.w, t, all.parts, TRUE)

(* The object a handle is for, and its parent; that of another handle for   *)
(* the same is its parent too, or the other if it has none.                 *)
PartsOf(M, s) == {o \in M.w.objects[M.of[s.under]].parts :
                     s.key \in {M.w.objects[o].type, "MEM_INFO_REF"}}
ObjectOf(M, s) ==
    CASE s.what = "made"   -> M.made
      [] s.what = "global" -> CHOOSE o \in Globals : Global[o] = s.key
      [] s.what = "part"   -> CHOOSE o \in PartsOf(M, s) : TRUE
      [] OTHER             -> M.of[s.under]
ParentOf(M, s) ==
    IF s.under = "" THEN 0
    ELSE LET h == M.args[s.under]
         IN  IF s.what = "again" /\ M.w.handles[h].parent # 0 THEN M.w.handles[h].parent ELSE h

(* Two handles that are not for many are one if they would be found alike.  *)
SameKey(x, y) ==
    LET under(z) == IF "PRIVATE" \in z.flags THEN z.parent ELSE 0
    IN  /\ "MULTI" \notin x.flags \cup y.flags
        /\ x.object = y.object /\ x.type = y.type /\ under(x) = under(y)

(* The handle is made, or the one there is found again.                     *)
Name(M, s) ==
    LET new  == [type |-> s.key, object |-> ObjectOf(M, s), parent |-> ParentOf(M, s), flags |-> s.flags]
        same == {h \in DOMAIN M.w.handles : SameKey(M.w.handles[h], new)}
        made == Unused(M.w.handles)
        old  == CHOOSE h \in same : TRUE
    IN  IF same = {}
        THEN [M EXCEPT !.w.handles = (made :> new) @@ @, !.args = (s.key :> made) @@ @,
                       !.of = (s.key :> new.object) @@ @,
                       !.taken = @ + 1, !.fresh = @ \cup {made}]
        ELSE IF M.w.handles[old].parent = new.parent /\ "SHARED" \in M.w.handles[old].flags \cap s.flags
        THEN [M EXCEPT !.args = (s.key :> old) @@ @, !.of = (s.key :> new.object) @@ @]
        ELSE [M EXCEPT !.failures = @ + 1]

(* The end of a batch, if one is open: its handles stay, or go if they are  *)
(* not wanted or one of them could not be made.                             *)
Settled(M, bCommit) ==
    IF bCommit /\ M.failures = 0 THEN [M EXCEPT !.batch = 0, !.fresh = {}]
    ELSE [M EXCEPT !.batch = 0, !.w.handles = IF M.batch = 0 THEN @ ELSE Without(@, M.fresh)]

-----------------------------------------------------------------------------
(* Whether a step can succeed, and what it then does.                       *)
Can(M, s) ==
    CASE s.do = "lookup"   -> s.key \in DOMAIN M.args
      [] s.do = "sub"      -> /\ {s.key, s.of} \subseteq DOMAIN M.args
                              /\ M.args[s.key] \in Family(M.w.handles, M.args[s.of])
      [] s.do = "find"     -> \E h \in DOMAIN M.w.handles : M.w.handles[h].type = s.key
      [] s.do = "missing"  -> \A o \in DOMAIN M.w.objects : M.w.objects[o].type # s.key
      [] s.do = "server"   -> M.w.server \in s.from
      [] s.do = "initOnly" -> M.w.init
      [] s.do = "release"  -> M.args[s.key] \in DOMAIN M.w.handles
      [] OTHER             -> TRUE

Do(M, s) ==
    CASE s.do = "batch"       -> [M EXCEPT !.batch = s.n]
      [] s.do = "server"      -> [M EXCEPT !.w.server = s.to, !.w.init = s.to = "running"]
      [] s.do = "creates"     -> LET W == Create(M.w, s.key, s.parts)
                                 IN  [M EXCEPT !.w = W,
                                               !.made = CHOOSE o \in DOMAIN W.objects \ DOMAIN M.w.objects :
                                                           W.objects[o].own]
      [] s.do = "shares"      -> [M EXCEPT !.w = Add(@, s.key, @.objects[M.of[s.of]].parts, TRUE),
                                           !.made = Unused(M.w.objects)]
      [] s.do = "absorbs"     -> LET all == {M.of[k] : k \in s.keys}
                                     W   == Add(M.w, s.key, all, TRUE)
                                 IN  [M EXCEPT !.w = [W EXCEPT !.objects = [o \in DOMAIN @ |->
                                                         [@[o] EXCEPT !.own = @ /\ o \notin all]]],
                                               !.made = Unused(M.w.objects)]
      [] s.do = "destroys"    -> [M EXCEPT !.w = Destroy(@, M.of[s.key])]
      [] s.do = "exports"     -> [M EXCEPT !.w.exported = @ \cup {M.of[s.key]}]
      [] s.do = "release"     -> [M EXCEPT !.w = ReleaseHandle(@, M.args[s.key])]
      [] s.do = "commit"      -> Settled(M, TRUE)
      [] s.do \in {"name", "alloc", "allocOrFree"} ->
            IF s.what = "part" /\ PartsOf(M, s) = {} THEN M ELSE Name(M, s)
      [] OTHER                -> M

(* What a step that fails leaves.                                           *)
Fail(M, s) ==
    IF s.do = "allocOrFree" THEN [M EXCEPT !.w = Destroy(@, M.made)] ELSE M

(* The states before each step that is reached, the one after the last of   *)
(* those that succeed, and whether one that is reached cannot.              *)
Course(path, world, args) ==
    FoldLeft(LAMBDA c, s :
                IF c.stuck THEN c
                ELSE IF ~Can(c.at, s) THEN [c EXCEPT !.before = Append(@, c.at), !.stuck = TRUE]
                ELSE [before |-> Append(c.before, c.at), at |-> Do(c.at, s), stuck |-> FALSE],
             [before |-> <<>>, at |-> Begin(world, args), stuck |-> FALSE], path)

=============================================================================
