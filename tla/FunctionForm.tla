---------------------------- MODULE FunctionForm ----------------------------
(***************************************************************************)
(* The form that creates a Function, src/web/src/components/FunctionForm:  *)
(* the packages it offers, the modules of the chosen package, and a field  *)
(* for each config item of the chosen module.                              *)
(*                                                                         *)
(* The form store keeps a value for every field that ever had one; what is *)
(* submitted are the values of the fields on the screen.  The store and    *)
(* the React state of the component are two copies of the chosen module,   *)
(* and only the store's is cleared when the package changes.  The list of  *)
(* packages is fetched again at any moment, with whatever has become of    *)
(* their modules; that clears neither.                                     *)
(***************************************************************************)

CONSTANTS Package, Module, Item

(* The empty option *)
Unset == ""
ASSUME UnsetAssumption == Unset \notin Package /\ Unset \notin Module

VARIABLES
  packages, \* the data of the list query: the modules of each package it lists,
            \* and the config items of each module
  form,     \* the form store, and the state selectedModule
  picked    \* the last module chosen, and the package it was chosen for (history)

formVars == <<packages, form, picked>>

(* spec.modules of a package, and the lists of packages *)
Specs == UNION {[ms -> SUBSET Item] : ms \in SUBSET Module}
Lists == UNION {[ps -> Specs] : ps \in SUBSET Package}

Form == [pkg : Package \union {Unset}, module : Module \union {Unset},
         selectedModule : Module \union {Unset}, items : SUBSET Item]

EmptyForm == [pkg |-> Unset, module |-> Unset, selectedModule |-> Unset, items |-> {}]

(* No packages, or no modules *)
Empty == [x \in {} |-> {}]
NonePicked == [pkg |-> Unset, module |-> Unset]

FormTypeOK ==
  /\ packages \in Lists
  /\ form \in Form
  /\ picked \in [pkg : Package \union {Unset}, module : Module \union {Unset}]

FormInit == packages = Empty /\ form = EmptyForm /\ picked = NonePicked

-----------------------------------------------------------------------------
(* What a package offers now: nothing when it is not in the list *)
SpecOf(p) == IF p \in DOMAIN packages THEN packages[p] ELSE Empty
ModuleOptions == DOMAIN SpecOf(form.pkg)

(* The config items that have a field on the screen *)
ConfigFields ==
  IF form.selectedModule \in ModuleOptions THEN SpecOf(form.pkg)[form.selectedModule] ELSE {}

(* The list arrives, again when the window regains the focus: packages, their
   modules and config items are what the API server has by then; a list that
   could not be read counts as empty. *)
LoadPackages ==
  /\ packages' \in Lists
  /\ UNCHANGED <<form, picked>>

(* Mutant: the effect that clears the module is left out. *)
SelectPackageOnly(p) ==
  /\ p \in DOMAIN packages
  /\ form' = [form EXCEPT !.pkg = p]
  /\ UNCHANGED <<packages, picked>>

(* A change of the package clears the module in the store. *)
SelectPackage(p) ==
  /\ p \in DOMAIN packages
  /\ form' = [form EXCEPT !.pkg = p, !.module = IF p = form.pkg THEN @ ELSE Unset]
  /\ UNCHANGED <<packages, picked>>

SelectModule(m) ==
  /\ m \in ModuleOptions
  /\ form' = [form EXCEPT !.module = m, !.selectedModule = m]
  /\ picked' = [pkg |-> form.pkg, module |-> m]
  /\ UNCHANGED packages

(* A field is filled; its value stays when the field goes. *)
FillItem(k) ==
  /\ k \in ConfigFields
  /\ form' = [form EXCEPT !.items = @ \union {k}]
  /\ UNCHANGED <<packages, picked>>

FillForm ==
  \/ LoadPackages
  \/ \E p \in Package : SelectPackage(p)
  \/ \E m \in Module : SelectModule(m)
  \/ \E k \in Item : FillItem(k)

FormSpec == FormInit /\ [][FillForm]_formVars

(* The rules of the form: it is not submitted without package and module. *)
Submittable == form.pkg # Unset /\ form.module # Unset

SubmittedItems == form.items \intersect ConfigFields

-----------------------------------------------------------------------------
(* Properties *)

(* The module in the store is the one the component shows the items of, and the
   one that was chosen for this very package. *)
FormInv ==
  form.module # Unset =>
    /\ form.pkg # Unset
    /\ form.module = form.selectedModule
    /\ picked = [pkg |-> form.pkg, module |-> form.module]

(* However package and module were chosen and chosen again, and whatever has
   become of the packages, their modules and items meanwhile: a Function is
   submitted with a module that was chosen for its own package, and with config
   items only if that package has that module now, with those items.  (The
   module itself may be gone by then; the form submits it all the same.) *)
SubmissionConsistent ==
  Submittable =>
    /\ picked = [pkg |-> form.pkg, module |-> form.module]
    /\ \A k \in SubmittedItems :
         form.module \in ModuleOptions /\ k \in SpecOf(form.pkg)[form.module]
=============================================================================
