------------------------------- MODULE Reload -------------------------------
(***************************************************************************)
(* server_models::load_models and the requests it runs against: the router *)
(* reads its list of models again (GET /models?reload) while other threads *)
(* load models and forward requests to them.                               *)
(*                                                                         *)
(* The sources are read without the lock; then every critical section of   *)
(* `mutex' is one step.  The limit on running models and the threads of a  *)
(* child are in module Router: here a child is up or ends.  A preset is a  *)
(* name for its options; none asks to be loaded at startup.  Of aliases    *)
(* only the effect on add_model is here: some presets have one that        *)
(* another model has taken.                                                *)
(***************************************************************************)
EXTENDS Naturals, FiniteSets

CONSTANTS
  Names,     \* names of models
  Presets,   \* what the sources may say of a model
  Clashing,  \* the presets with an alias that another model has
  NoPreset,  \* not in the sources; the empty preset of a default entry
  Askers,    \* threads that forward a request to a model
  Reloaders, \* threads that reload the list
  MaxEdits   \* bound: changes of the sources

ASSUME ReloadAssumption ==
  /\ Clashing \subseteq Presets /\ NoPreset \notin Presets
  /\ MaxEdits \in Nat

Lists == [Names -> Presets \cup {NoPreset}]

VARIABLES
  source,      \* what the sources say of each model
  edits,       \* changes of the sources so far
  mapping,     \* mapping: the entry of each model, NoEntry where there is none
  isReloading, \* is_reloading
  reload,      \* each reloader: where it is, its final_presets and its to_unload
  asker,       \* where each asker is
  wanted,      \* the model that each asker wants
  down,        \* "no", or how the router has crashed
  overlapped   \* history: two reloads were under way at once

reloadVars ==
  <<source, edits, mapping, isReloading, reload, asker, wanted, down, overlapped>>

\* thread: th is joinable.  process: subproc is not null.
ModelEntry == [status : {"absent", "unloaded", "loading", "loaded"},
          preset : Presets \cup {NoPreset}, thread : BOOLEAN, process : BOOLEAN]

Unused(s, p, proc) == [status |-> s, preset |-> p, thread |-> FALSE, process |-> proc]
NoEntry == Unused("absent", NoPreset, FALSE)

\* The entry that mapping[name] makes where there is none.
DefaultEntry == Unused("unloaded", NoPreset, FALSE)

\* add_model
Added(p) == Unused("unloaded", p, TRUE)

Has(map, n) == map[n].status # "absent"
IsRunning(map, n) == map[n].status \in {"loading", "loaded"}

WithAdded(map, list, S) == [n \in Names |-> IF n \in S THEN Added(list[n]) ELSE map[n]]
New(map, list) == {n \in Names : list[n] # NoPreset /\ ~Has(map, n)}

ReloadInit ==
  /\ source \in Lists /\ edits = 0
  /\ mapping = WithAdded([n \in Names |-> NoEntry], source,
                         New([n \in Names |-> NoEntry], source))
  /\ \A n \in Names : source[n] \notin Clashing
  /\ isReloading = FALSE
  /\ reload = [r \in Reloaders |-> [pc |-> "new", list |-> source, targets |-> {}, todo |-> {}]]
  /\ asker = [c \in Askers |-> "new"]
  /\ wanted \in [Askers -> Names]
  /\ down = "no" /\ overlapped = FALSE

-----------------------------------------------------------------------------
(* Reloads                                                                  *)

\* Somebody changes the sources.
Edit ==
  /\ down = "no" /\ edits < MaxEdits
  /\ \E l \in Lists : l # source /\ source' = l
  /\ edits' = edits + 1
  /\ UNCHANGED <<mapping, isReloading, reload, asker, wanted, down, overlapped>>

At(r, pc) == down = "no" /\ reload[r].pc = pc
Under(r) == reload[r].pc \in {"unload", "join"}

ReadSource(r) ==
  /\ At(r, "new")
  /\ reload' = [reload EXCEPT ![r].pc = "lock", ![r].list = source]
  /\ UNCHANGED <<source, edits, mapping, isReloading, asker, wanted, down, overlapped>>

\* The new models are added in turn, until add_model throws for one of them.
AddNew(r, map) ==
  LET list == reload[r].list
      new == New(map, list)
      clashes == {n \in new : list[n] \in Clashing}
  IN IF clashes = {}
     THEN /\ mapping' = WithAdded(map, list, new)
          /\ reload' = [reload EXCEPT ![r].pc = "done"]
     ELSE /\ \E S \in SUBSET (new \ clashes) : mapping' = WithAdded(map, list, S)
          /\ reload' = [reload EXCEPT ![r].pc = "failed"]

\* load_models when the mapping is empty.
FirstLoad(r) ==
  /\ At(r, "lock")
  /\ \A n \in Names : ~Has(mapping, n)
  /\ AddNew(r, mapping)
  /\ UNCHANGED <<source, edits, isReloading, asker, wanted, down, overlapped>>

\* The threads to join: of models just unloaded, and of removed ones not running.
Collected(targets, list) ==
  [n \in Names |->
     IF n \in targets \/ (list[n] = NoPreset /\ ~IsRunning(mapping, n))
     THEN [mapping[n] EXCEPT !.thread = FALSE] ELSE mapping[n]]

\* Mutant: the models in the list with another preset go on running.
GoneTargets(list) == {n \in Names : IsRunning(mapping, n) /\ list[n] = NoPreset}

\* The running models that were removed from the sources, or changed.
Targets(list) == {n \in Names : IsRunning(mapping, n) /\ list[n] # mapping[n].preset}

BeginReload(r) ==
  /\ At(r, "lock")
  /\ \E n \in Names : Has(mapping, n)
  /\ isReloading' = TRUE
  /\ overlapped' = (overlapped \/ \E q \in Reloaders \ {r} : Under(q))
  /\ LET targets == Targets(reload[r].list) IN
     IF targets = {}
     THEN /\ mapping' = Collected({}, reload[r].list)
          /\ reload' = [reload EXCEPT ![r].pc = "join", ![r].targets = {}]
     ELSE /\ UNCHANGED mapping
          /\ reload' = [reload EXCEPT ![r].pc = "unload", ![r].targets = targets,
                                      ![r].todo = targets]
  /\ UNCHANGED <<source, edits, asker, wanted, down>>

\* unload(): the child of n is told to exit, or killed.
UnloadOne(r, n) ==
  /\ At(r, "unload") /\ n \in reload[r].todo
  /\ reload' = [reload EXCEPT ![r].todo = @ \ {n}]
  /\ UNCHANGED <<source, edits, mapping, isReloading, asker, wanted, down, overlapped>>

Unloaded(r) ==
  /\ At(r, "unload") /\ reload[r].todo = {}
  /\ \A n \in reload[r].targets : ~IsRunning(mapping, n)
  /\ mapping' = Collected(reload[r].targets, reload[r].list)
  /\ reload' = [reload EXCEPT ![r].pc = "join"]
  /\ UNCHANGED <<source, edits, isReloading, asker, wanted, down, overlapped>>

\* The assertion of the loop that erases the removed models.
Unjoined(r) ==
  At(r, "join") /\ \E n \in Names :
    Has(mapping, n) /\ reload[r].list[n] = NoPreset /\ mapping[n].thread

AssertFails(r) ==
  /\ Unjoined(r)
  /\ down' = "assert"
  /\ UNCHANGED <<source, edits, mapping, isReloading, reload, asker, wanted, overlapped>>

\* The removed models are erased, those not running get their new preset.
Kept(list) ==
  [n \in Names |->
     IF list[n] = NoPreset THEN NoEntry
     ELSE IF IsRunning(mapping, n) \/ ~Has(mapping, n) THEN mapping[n]
     ELSE [mapping[n] EXCEPT !.preset = list[n]]]

\* The rest of a reload.  When add_model throws, is_reloading stays set.
Finish(r) ==
  /\ At(r, "join") /\ ~Unjoined(r)
  /\ AddNew(r, Kept(reload[r].list))
  /\ isReloading' = (isReloading /\ reload'[r].pc = "failed")
  /\ UNCHANGED <<source, edits, asker, wanted, down, overlapped>>

ReloadStep(r) ==
  \/ ReadSource(r) \/ FirstLoad(r) \/ BeginReload(r)
  \/ \E n \in Names : UnloadOne(r, n)
  \/ Unloaded(r) \/ AssertFails(r) \/ Finish(r)

-----------------------------------------------------------------------------
(* Children                                                                 *)

\* A child is ready for requests.
Up(n) ==
  /\ down = "no" /\ mapping[n].status = "loading"
  /\ mapping' = [mapping EXCEPT ![n].status = "loaded"]
  /\ UNCHANGED <<source, edits, isReloading, reload, asker, wanted, down, overlapped>>

\* A child ends, by a crash or because it was told to.
Ends(n) ==
  /\ down = "no" /\ IsRunning(mapping, n)
  /\ mapping' = [mapping EXCEPT ![n].status = "unloaded"]
  /\ UNCHANGED <<source, edits, isReloading, reload, asker, wanted, down, overlapped>>

\* A reload has told the child of n to end.
ToldToEnd(n) ==
  \E r \in Reloaders : reload[r].pc = "unload" /\ n \in reload[r].targets \ reload[r].todo

-----------------------------------------------------------------------------
(* Requests                                                                 *)

Goes(c, from, to) == down = "no" /\ asker[c] = from /\ asker' = [asker EXCEPT ![c] = to]
Of(c) == mapping[wanted[c]]

\* ensure_model_ready, first look.
Ensure(c) ==
  /\ \/ Of(c).status = "absent" /\ Goes(c, "new", "refused")
     \/ Of(c).status = "loaded" /\ Goes(c, "new", "proxy")
     \/ Of(c).status = "loading" /\ Goes(c, "new", "wait")
     \/ Of(c).status = "unloaded" /\ Goes(c, "new", "load")
  /\ UNCHANGED <<source, edits, mapping, isReloading, reload, wanted, down, overlapped>>

\* load(), has_model
Exists(c) ==
  /\ IF Of(c).status = "absent" THEN Goes(c, "load", "refused") ELSE Goes(c, "load", "begin")
  /\ UNCHANGED <<source, edits, mapping, isReloading, reload, wanted, down, overlapped>>

\* load() of a model that somebody else has started meanwhile.
LoadStarted(c) ==
  /\ ~isReloading /\ IsRunning(mapping, wanted[c])
  /\ Goes(c, "begin", "wait")
  /\ UNCHANGED <<source, edits, mapping, isReloading, reload, wanted, down, overlapped>>

\* The entry that load() finds, or makes.
Found(c) == IF Of(c).status = "absent" THEN DefaultEntry ELSE Of(c)

\* load() when the process cannot be started.
LoadFails(c) ==
  /\ ~isReloading /\ ~IsRunning(mapping, wanted[c])
  /\ Goes(c, "begin", "refused")
  /\ mapping' = [mapping EXCEPT ![wanted[c]] = Found(c)]
  /\ UNCHANGED <<source, edits, isReloading, reload, wanted, down, overlapped>>

\* Mutant: load() does not wait for the reload.
LoadInReload(c) ==
  /\ ~IsRunning(mapping, wanted[c]) /\ Found(c).process
  /\ Goes(c, "begin", "wait")
  /\ mapping' = [mapping EXCEPT ![wanted[c]].status = "loading", ![wanted[c]].thread = TRUE]
  /\ UNCHANGED <<source, edits, isReloading, reload, wanted, down, overlapped>>

LoadModel(c) ==
  /\ ~isReloading /\ ~IsRunning(mapping, wanted[c]) /\ Found(c).process
  /\ Goes(c, "begin", "wait")
  /\ mapping' = [mapping EXCEPT ![wanted[c]].status = "loading", ![wanted[c]].thread = TRUE]
  /\ UNCHANGED <<source, edits, isReloading, reload, wanted, down, overlapped>>

\* subprocess_alive of an entry that has no subproc.
LoadCrashes(c) ==
  /\ ~isReloading /\ ~Found(c).process
  /\ Goes(c, "begin", "begin")
  /\ down' = "null"
  /\ UNCHANGED <<source, edits, mapping, isReloading, reload, wanted, overlapped>>

\* wait_until_loading_finished: not while the model has no entry.
WaitDone(c) ==
  /\ Of(c).status \in {"unloaded", "loaded"} /\ Goes(c, "wait", "check")
  /\ UNCHANGED <<source, edits, mapping, isReloading, reload, wanted, down, overlapped>>

\* ensure_model_ready, last look: a model that has ended may have failed.
Check(c) ==
  /\ \/ Of(c).status \in {"absent", "unloaded"} /\ Goes(c, "check", "refused")
     \/ Of(c).status # "absent" /\ Goes(c, "check", "proxy")
  /\ UNCHANGED <<source, edits, mapping, isReloading, reload, wanted, down, overlapped>>

\* proxy_request, first look.
Proxy(c) ==
  /\ IF IsRunning(mapping, wanted[c]) THEN Goes(c, "proxy", "touch") ELSE Goes(c, "proxy", "refused")
  /\ UNCHANGED <<source, edits, mapping, isReloading, reload, wanted, down, overlapped>>

\* proxy_request sets last_used, of a default entry if the model is gone by now.
Touch(c) ==
  /\ Goes(c, "touch", "forwarded")
  /\ mapping' = [mapping EXCEPT ![wanted[c]] = Found(c)]
  /\ UNCHANGED <<source, edits, isReloading, reload, wanted, down, overlapped>>

AskerStep(c) ==
  \/ Ensure(c) \/ Exists(c) \/ LoadStarted(c) \/ LoadFails(c) \/ LoadModel(c) \/ LoadCrashes(c)
  \/ WaitDone(c) \/ Check(c) \/ Proxy(c) \/ Touch(c)

ReloadNext ==
  \/ Edit
  \/ \E r \in Reloaders : ReloadStep(r)
  \/ \E n \in Names : Up(n) \/ Ends(n)
  \/ \E c \in Askers : AskerStep(c)

\* Threads run; a child that loads becomes ready or ends; one told to end does,
\* as it is killed after a timeout.
ReloadFairness ==
  /\ \A r \in Reloaders : WF_reloadVars(ReloadStep(r))
  /\ \A c \in Askers : WF_reloadVars(AskerStep(c))
  /\ \A n \in Names : /\ WF_reloadVars(mapping[n].status = "loading" /\ (Up(n) \/ Ends(n)))
                      /\ WF_reloadVars(ToldToEnd(n) /\ Ends(n))

ReloadSpec == ReloadInit /\ [][ReloadNext]_reloadVars

-----------------------------------------------------------------------------
(* Properties                                                               *)

ReloadTypeOK ==
  /\ source \in Lists /\ edits \in 0..MaxEdits
  /\ mapping \in [Names -> ModelEntry]
  /\ isReloading \in BOOLEAN /\ overlapped \in BOOLEAN
  /\ reload \in [Reloaders -> [pc : {"new", "lock", "unload", "join", "done", "failed"},
                              list : Lists, targets : SUBSET Names, todo : SUBSET Names]]
  /\ asker \in [Askers -> {"new", "load", "begin", "wait", "check", "proxy", "touch",
                           "forwarded", "refused"}]
  /\ wanted \in [Askers -> Names]
  /\ down \in {"no", "assert", "null"}

\* A model that runs has its monitor thread in the mapping, where unload_all joins it.
RunningIsWatched == \A n \in Names : IsRunning(mapping, n) => mapping[n].thread

\* "must have been joined above" (server-models.cpp:467): a reload that overlaps
\* no other has joined the thread of every model that it erases, whatever is
\* loaded, forwarded or crashes meanwhile; and no model runs unwatched.
ReloadSound == (down = "assert" => overlapped) /\ RunningIsWatched

\* A reload that overlaps no other ends with the models of its list, each with
\* its new preset: no model runs on with an old one.
ListApplied ==
  [][\A r \in Reloaders :
       (reload[r].pc = "join" /\ reload'[r].pc = "done" /\ ~overlapped) =>
         \A n \in Names : /\ mapping'[n].preset = reload[r].list[n]
                          /\ Has(mapping', n) = (reload[r].list[n] # NoPreset)]_reloadVars

\* A reload that overlaps no other ends: what it unloads is not loaded again.
ReloadEnds ==
  \A r \in Reloaders :
    (reload[r].pc \in {"lock", "unload", "join"}) ~>
      (reload[r].pc \in {"done", "failed"} \/ overlapped \/ down # "no")

\* A load that waits for a reload goes on, unless the reload has failed.
LoadsResume ==
  \A c \in Askers : (asker[c] = "begin") ~>
    (asker[c] # "begin" \/ down # "no" \/ overlapped
       \/ \E r \in Reloaders : reload[r].pc = "failed")

\* A request that waits for a model to load goes on, unless a reload has
\* removed the model.
WaitersReleased ==
  \A c \in Askers : (asker[c] = "wait") ~>
    (asker[c] # "wait" \/ Of(c).status = "absent" \/ down # "no")

\* "edge case: block until any in-progress reload has finished so we always load
\* against the freshest preset and a consistent mapping state"
\* (server-models.cpp:732): a reload applies its list, and neither it nor the
\* requests wait for ever.
ReloadServes == ListApplied /\ ReloadEnds /\ LoadsResume /\ WaitersReleased
=============================================================================
