-------------------------------- MODULE Rules --------------------------------
(***************************************************************************)
(* Teaching rules and the presets they are copied from: rule_service.py,   *)
(* skill_preset_service.py and their endpoints in routers/teacher.py. A    *)
(* rule belongs to a class, a lab or a student, and chats put the active   *)
(* texts of the three into their prompt. A save looks for the row and then *)
(* writes it; other teachers and other tabs commit between the two, and an *)
(* admin gives a class to another teacher (transfer_class).                *)
(***************************************************************************)
EXTENDS Naturals, FiniteSets, SequencesExt

CONSTANTS
    Teachers, Classes, Labs, Students,
    FirstOwner,         \* of each class its teacher at first
    ClassOf,            \* of each lab its class
    Presets, Texts,
    Requests,           \* bound: saves at one time
    MaxSaves            \* bound: saves

Targets == Classes \cup Labs \cup Students

\* Assumed of the constants wherever the module is instantiated.
RuleConstants ==
    /\ "none" \notin Teachers
    /\ FirstOwner \in [Classes -> Teachers] /\ ClassOf \in [Labs -> Classes] /\ MaxSaves \in Nat
    /\ Classes \cap Labs = {} /\ Students \cap (Classes \cup Labs) = {}

VARIABLES
    rules,      \* the rows of each target
    presets,    \* of each preset its owner and text, or NoPreset
    enrolled,   \* pairs of a student and a class
    owner,      \* of each class its teacher
    request,    \* saves under way
    saved,      \* ghost: of each target the saved texts, by whom, and whose the
                \* target was when the save was asked for
    saves

vars == <<rules, presets, enrolled, owner, request, saved, saves>>

NoPreset == [owner |-> "none", text |-> "none"]
Idle == [at |-> "idle"]
NoRow == <<>>

Init ==
    /\ rules = [x \in Targets |-> NoRow] /\ presets = [p \in Presets |-> NoPreset]
    /\ enrolled \in SUBSET (Students \X Classes) /\ owner = FirstOwner
    /\ request = [q \in Requests |-> Idle] /\ saved = [x \in Targets |-> {}] /\ saves = 0

-----------------------------------------------------------------------------
(* Who may save which rule                                                 *)

\* _verify_rule_target_ownership.
Owns(t, x) == IF x \in Classes THEN owner[x] = t
              ELSE IF x \in Labs THEN owner[ClassOf[x]] = t
              ELSE \E c \in Classes : owner[c] = t /\ <<x, c>> \in enrolled

Owners(x) == {t \in Teachers : Owns(t, x)}

Enroll(s, c) ==
    /\ enrolled' = IF <<s, c>> \in enrolled THEN enrolled \ {<<s, c>>} ELSE enrolled \cup {<<s, c>>}
    /\ saves < MaxSaves /\ saves' = saves + 1
    /\ UNCHANGED <<rules, presets, owner, request, saved>>

\* transfer_class, also while a save of the old teacher is under way.
TransferClass(c, t) ==
    /\ owner[c] # t /\ owner' = [owner EXCEPT ![c] = t]
    /\ saves < MaxSaves /\ saves' = saves + 1
    /\ UNCHANGED <<rules, presets, enrolled, request, saved>>

-----------------------------------------------------------------------------
(* Saving a rule                                                           *)

\* The row it finds, or none.
Begin(q, t, x, text, active) ==
    /\ request[q].at = "idle" /\ saves < MaxSaves /\ saves' = saves + 1
    /\ request' = [request EXCEPT ![q] = [at |-> "found", by |-> t, target |-> x, text |-> text,
                                          active |-> active, row |-> rules[x], owners |-> Owners(x)]]
    /\ UNCHANGED <<rules, presets, enrolled, owner, saved>>

\* upsert_rule of the router.
SaveRule(q, t, x, text, active) == Owns(t, x) /\ Begin(q, t, x, text, active)

\* _get_owned.
Owned(t, p) == presets[p].owner = t

\* apply_class_skill: the text of an own preset, and the rule is active again.
ApplyPreset(q, t, c, p) ==
    /\ Owns(t, c) /\ Owned(t, p)
    /\ Begin(q, t, c, presets[p].text, TRUE)

\* Mutant: the table takes a second rule of a target.
NeverTaken(r) == FALSE

\* uq_rule_level_target.
Taken(r) == r.row = NoRow /\ rules[r.target] # NoRow

\* Mutant: all columns are written.
AllColumns(r) ==
    (IF r.row = NoRow THEN rules[r.target] ELSE <<>>) \o <<[text |-> r.text, active |-> r.active]>>

\* A new row, or the columns that differ from the row it found.
Written(r) ==
    IF r.row = NoRow THEN Append(rules[r.target], [text |-> r.text, active |-> r.active])
    ELSE <<[text |-> IF r.text = r.row[1].text THEN rules[r.target][1].text ELSE r.text,
            active |-> IF r.active = r.row[1].active THEN rules[r.target][1].active ELSE r.active]>>

\* The second of two first saves fails.
EndSave(q) ==
    LET r == request[q] IN
    /\ r.at = "found" /\ request' = [request EXCEPT ![q] = Idle]
    /\ \/ Taken(r) /\ UNCHANGED <<rules, saved>>
       \/ /\ ~Taken(r) /\ rules' = [rules EXCEPT ![r.target] = Written(r)]
          /\ saved' = [saved EXCEPT ![r.target] = @ \cup {[by |-> r.by, owners |-> r.owners, text |-> r.text]}]
    /\ UNCHANGED <<presets, enrolled, owner, saves>>

-----------------------------------------------------------------------------
(* Presets                                                                 *)

Kept == UNCHANGED <<rules, enrolled, owner, request, saved>>

\* create_preset: in the teacher's own library.
CreatePreset(t, p, text) ==
    /\ presets[p] = NoPreset /\ presets' = [presets EXCEPT ![p] = [owner |-> t, text |-> text]]
    /\ saves < MaxSaves /\ saves' = saves + 1 /\ Kept

\* Mutant: classes follow the preset they copied.
LivePreset(t, p, text) ==
    /\ Owned(t, p) /\ presets[p].text # text /\ presets' = [presets EXCEPT ![p].text = text]
    /\ rules' = [x \in Targets |-> [i \in DOMAIN rules[x] |->
                    IF rules[x][i].text = presets[p].text THEN [rules[x][i] EXCEPT !.text = text] ELSE rules[x][i]]]
    /\ saves < MaxSaves /\ saves' = saves + 1 /\ UNCHANGED <<enrolled, owner, request, saved>>

\* update_preset: the classes that applied it keep their copies.
UpdatePreset(t, p, text) ==
    /\ Owned(t, p) /\ presets[p].text # text /\ presets' = [presets EXCEPT ![p].text = text]
    /\ saves < MaxSaves /\ saves' = saves + 1 /\ Kept

\* delete_preset.
DeletePreset(t, p) == Owned(t, p) /\ presets' = [presets EXCEPT ![p] = NoPreset] /\ UNCHANGED saves /\ Kept

-----------------------------------------------------------------------------

Next ==
    \/ \E q \in Requests :
          \/ EndSave(q)
          \/ \E t \in Teachers :
                \/ \E x \in Targets, text \in Texts, active \in BOOLEAN : SaveRule(q, t, x, text, active)
                \/ \E c \in Classes, p \in Presets : ApplyPreset(q, t, c, p)
    \/ \E t \in Teachers, p \in Presets :
          \/ DeletePreset(t, p)
          \/ \E text \in Texts : CreatePreset(t, p, text) \/ UpdatePreset(t, p, text)
    \/ \E s \in Students, c \in Classes : Enroll(s, c)
    \/ \E c \in Classes, t \in Teachers : TransferClass(c, t)

Spec == Init /\ [][Next]_vars

-----------------------------------------------------------------------------
(* Properties                                                              *)

\* get_active_rule_texts: of each target the text of its active row.
ActiveTexts(x) == {rules[x][i].text : i \in {i \in DOMAIN rules[x] : rules[x][i].active}}

TypeOK ==
    /\ \A x \in Targets : rules[x] \in Seq([text : Texts, active : BOOLEAN])
    /\ presets \in [Presets -> [owner : Teachers \cup {"none"}, text : Texts \cup {"none"}]]
    /\ enrolled \subseteq Students \X Classes /\ owner \in [Classes -> Teachers] /\ \A q \in Requests : request[q].at \in {"idle", "found"}

\* At most one rule of a target, however many first saves find none: with two
\* every chat of the class would fail when it asks for the one rule.
OneRuleOfATarget == \A x \in Targets : Len(rules[x]) <= 1

\* The text in a prompt is one that was saved for this target, by somebody whose
\* class, lab or student it was when the save was asked for: a preset that is
\* edited later, saves of other targets, a class that changes its teacher and a
\* student who changes classes bring no other text into it.
TextsWereSavedHere ==
    \A x \in Targets : \A text \in ActiveTexts(x) :
        \E z \in saved[x] : z.text = text /\ z.by \in z.owners

OffUntilAsked ==
    \A x \in Targets : rules[x] # NoRow /\ ~rules[x][1].active /\ rules'[x] # NoRow /\ rules'[x][1].active
       => \E q \in Requests : /\ request[q].at = "found" /\ request'[q].at = "idle"
                              /\ request[q].target = x /\ request[q].active
                              /\ request[q].row # NoRow /\ ~request[q].row[1].active

\* Switching a rule off lasts: only a save that asks for an active rule makes it
\* active again, one that began before and edits the text does not.
OffStaysOff == [][OffUntilAsked]_vars

=============================================================================
