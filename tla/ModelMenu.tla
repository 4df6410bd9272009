------------------------------ MODULE ModelMenu -------------------------------
(***************************************************************************)
(* Listing and switching the models of a chat through its own menus:       *)
(* ConfiguredChatSurface.listModels and setModel, over the controls that   *)
(* rankModelTriggers takes for the model's, best first.  Some are not:     *)
(* they open the menu of other settings, whose options may look like       *)
(* models, or are switches themselves.                                     *)
(***************************************************************************)
EXTENDS Naturals, FiniteSets

CONSTANTS
  MaxControls,  \* controls that look like a model selector
  Models,       \* the models there are
  Levels,       \* options of another menu that look like models ("Level 1")
  Named,        \* the names one may ask for
  NoName,       \* none of them
  Within,       \* pairs <<name, option>>: the option's label contains the name
  MaxJobs       \* bound: calls of listModels and setModel

VARIABLES
  kind,     \* what each control is: "models", "levels", "settings" or "switch"
  offered,  \* the models the menu lists
  model,    \* the one in force
  on,       \* the switches that are on, and the menus whose setting is checked
  open,     \* the control whose menu is open, 0 for none
  seen,     \* the options that look like models among those that appeared
  was,      \* the model in force when the job began
  job,      \* "none", "list" or "set"
  wanted,   \* setModel's argument
  at,       \* the control it has got to
  step,     \* "click", "look", "confirm" or "done"
  outcome,  \* "none", "listed", "ok" or "failed"
  jobs

menuVars == <<kind, offered, model, on, open, seen, was, job, wanted, at, step, outcome, jobs>>

Controls == 1 .. MaxControls
Kinds    == {"models", "levels", "settings", "switch"}

MenuTypeOK ==
  /\ kind \in [Controls -> Kinds] /\ offered \subseteq Models /\ model \in Models
  /\ on \subseteq Controls /\ open \in 0 .. MaxControls
  /\ seen \subseteq Models \cup Levels /\ was \in Models
  /\ job \in {"none", "list", "set"} /\ wanted \in Named \cup {NoName}
  /\ at \in 1 .. MaxControls + 1 /\ step \in {"click", "look", "confirm", "done"}
  /\ outcome \in {"none", "listed", "ok", "failed"} /\ jobs \in 0 .. MaxJobs

MenuInit ==
  /\ kind \in [Controls -> Kinds]
  /\ offered \in {s \in SUBSET Models : Cardinality(s) >= 2} /\ model \in offered
  /\ on \in SUBSET {c \in Controls : kind[c] \in {"settings", "switch"}}
  /\ seen = {} /\ was = model
  /\ open = 0 /\ job = "none" /\ wanted = NoName /\ at = 1 /\ step = "done"
  /\ outcome = "none" /\ jobs = 0

Begin(what, name) ==
  /\ step = "done" /\ jobs < MaxJobs /\ jobs' = jobs + 1
  /\ job' = what /\ wanted' = name
  /\ at' = 1 /\ step' = "click" /\ outcome' = "none" /\ was' = model
  /\ UNCHANGED <<kind, offered, model, on, open, seen>>

List    == Begin("list", NoName)
Set(n)  == Begin("set", n)

Finish(result) == step' = "done" /\ outcome' = result

(* What a control's menu has that looks like a model.                      *)
Listed(c) ==
  IF kind[c] = "models" THEN offered ELSE IF kind[c] = "levels" THEN Levels ELSE {}

(* A click opens the control's menu or closes it, or throws the switch.    *)
(* What has appeared 350 ms later is looked at once: all of it, a part of  *)
(* it, or nothing yet.                                                     *)
ClickControl ==
  /\ step = "click" /\ at \in Controls /\ step' = "look"
  /\ IF kind[at] = "switch"
     THEN on' = (on \cup {at}) \ (on \cap {at}) /\ open' = 0
     ELSE open' = (IF open = at THEN 0 ELSE at) /\ UNCHANGED on
  /\ seen' \in SUBSET IF open' = at THEN Listed(at) ELSE {}
  /\ UNCHANGED <<kind, offered, model, was, job, wanted, at, outcome, jobs>>

NoMenuFound ==
  /\ step = "click" /\ at \notin Controls /\ Finish("failed")
  /\ UNCHANGED <<kind, offered, model, on, open, seen, was, job, wanted, at, jobs>>

(* looksLikeModelMenu: two or more, of whatever menu.                      *)
LooksLikeModels == Cardinality(seen) >= 2

(* pressEscape: the site may not take it from a script.                    *)
Escape == open' \in {0, open}

(* dismissMenu clicks the option that is marked as current, which is the   *)
(* setting that is checked if that has appeared, or presses Escape.        *)
Dismiss ==
  \/ Escape /\ UNCHANGED on
  \/ /\ open = at /\ kind[at] = "settings" /\ at \in on
     /\ on' = on \ {at} /\ open' \in {0, open}

LookToList ==
  /\ step = "look" /\ job = "list"
  /\ Dismiss
  /\ IF LooksLikeModels
     THEN Finish("listed") /\ UNCHANGED at
     ELSE at' = at + 1 /\ step' = "click" /\ UNCHANGED outcome
  /\ UNCHANGED <<kind, offered, model, seen, was, job, wanted, jobs>>

NotThisMenu ==
  /\ step = "look" /\ job = "set" /\ ~LooksLikeModels
  /\ Escape /\ UNCHANGED on
  /\ at' = at + 1 /\ step' = "click"
  /\ UNCHANGED <<kind, offered, model, seen, was, job, wanted, outcome, jobs>>

Means(n) == {m \in seen : <<n, m>> \in Within}

(* Faulty: the first of several that contain the name.                     *)
AnyOption(n) == IF n \in seen THEN {n} ELSE Means(n)

(* chooseModelOption: the one of that name, or the only one with it.       *)
Option(n) ==
  IF n \in seen THEN {n} ELSE IF Cardinality(Means(n)) = 1 THEN Means(n) ELSE {}

Ambiguous ==
  /\ step = "look" /\ job = "set" /\ LooksLikeModels /\ Option(wanted) = {}
  /\ Escape /\ Finish("failed")
  /\ UNCHANGED <<kind, offered, model, on, seen, was, job, wanted, at, jobs>>

(* The page may ignore the click, or it is another setting's.              *)
ClickOption ==
  /\ step = "look" /\ job = "set" /\ LooksLikeModels
  /\ \E m \in Option(wanted) :
       \/ kind[at] = "models" /\ model' = m /\ open' \in {0, open} /\ UNCHANGED on
       \/ kind[at] = "levels" /\ on' = on \cup {at} /\ open' \in {0, open} /\ UNCHANGED model
       \/ UNCHANGED <<model, open, on>>
  /\ step' = "confirm"
  /\ UNCHANGED <<kind, offered, seen, was, job, wanted, at, outcome, jobs>>

(* switchConfirmed: what the control says contains the name.  The page may *)
(* not say it yet.                                                         *)
ReadBack ==
  /\ step = "confirm"
  /\ \/ <<wanted, model>> \in Within /\ Finish("ok")
     \/ Finish("failed")
  /\ UNCHANGED <<kind, offered, model, on, open, seen, was, job, wanted, at, jobs>>

MenuNext ==
  \/ List \/ \E n \in Named : Set(n)
  \/ ClickControl \/ NoMenuFound \/ LookToList \/ NotThisMenu \/ Ambiguous \/ ClickOption
  \/ ReadBack

MenuSpec == MenuInit /\ [][MenuNext]_menuVars

-----------------------------------------------------------------------------
(* The model changes only in a call of setModel, to the model it names or  *)
(* to the only one in view that it can mean ("Silently picking one of two  *)
(* plausible models is worse than not switching"), and setModel clicks     *)
(* nothing in a menu whose options do not look like models.                *)
OnlyTheModelNamed ==
  [][/\ model' # model => job = "set" /\ (model' = wanted \/ Means(wanted) = {model'})
     /\ on' # on /\ job = "set" => step = "click" \/ kind[at] = "levels"]_menuVars

(* "If any of those fails the menu is closed with Escape and nothing       *)
(* changes": a page that switches and is slow to say so has another model  *)
(* in force though setModel failed.                                        *)
FailureChangesNothing ==
  step = "done" /\ job = "set" /\ outcome = "failed" => model = was

(* "The trigger has to say the new name afterwards": of a model that is on *)
(* offer, it has been switched to.  A control that names another model, of *)
(* a longer name, says it too.                                             *)
SuccessMeansSwitched ==
  step = "done" /\ job = "set" /\ outcome = "ok" /\ wanted \in offered => model = wanted
=============================================================================
