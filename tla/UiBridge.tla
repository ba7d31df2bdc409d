------------------------------ MODULE UiBridge -------------------------------
(***************************************************************************)
(* ui_bridge.rs: the answer to a card, translated back into the answer the *)
(* daemon expects of the question behind the card.                         *)
(*                                                                         *)
(* A permission card offers labels.  The operator sends back a label; only *)
(* its place in the full list says which grant it stands for.              *)
(***************************************************************************)
EXTENDS Integers, Sequences, SequencesExt

LOCAL NoTarget == "once"

choice(granted, target) == [granted |-> granted, target |-> target]

PERMISSION_APPROVAL_CHOICES ==
    <<choice(FALSE, NoTarget), choice(TRUE, NoTarget), choice(TRUE, "session"),
      choice(TRUE, "project_local"), choice(TRUE, "project"),
      choice(TRUE, "user_local"), choice(TRUE, "user")>>

PERMISSION_APPROVAL_LABELS ==
    <<"Deny", "Allow once", "Allow for session", "Allow for project (local)",
      "Allow for project", "Allow for user (local)", "Allow for user">>

\* The choices a request may offer: no rule of the daemon's means all of them.
prune_approval_options(keep) ==
    IF keep = {} THEN PERMISSION_APPROVAL_CHOICES
    ELSE SelectSeq(PERMISSION_APPROVAL_CHOICES,
                   LAMBDA c : c.target = NoTarget \/ c.target \in keep)

\* The place of a value in a list, 0 when it is not there.
position(list, v) == SelectInSeq(list, LAMBDA x : x = v)

\* Seeded bug: a label is taken at the place its choice has among the offered ones.
offered_labels_by_place(choices) ==
    [i \in DOMAIN choices |-> PERMISSION_APPROVAL_LABELS[i]]

\* The labels of the offered choices, by their place in the full list.
offered_labels(choices) ==
    [i \in DOMAIN choices |->
       PERMISSION_APPROVAL_LABELS[position(PERMISSION_APPROVAL_CHOICES, choices[i])]]

Cancel == [kind |-> "cancel"]
NoResponse == [kind |-> "none"]

permission_response(pending, label) ==
    LET at == position(PERMISSION_APPROVAL_LABELS, label)
    IN  IF at = 0 \/ position(pending.choices, PERMISSION_APPROVAL_CHOICES[at]) = 0
        THEN NoResponse
        ELSE [kind |-> "permission"] @@ PERMISSION_APPROVAL_CHOICES[at]

\* A clarification or a plan: the chosen label stands for the key at its place.
label_response(pending, label) ==
    LET at == position(pending.labels, label)
    IN  IF at \in DOMAIN pending.keys
        THEN [kind |-> pending.type, key |-> pending.keys[at]] ELSE NoResponse

\* One reply per question; an index without an option is skipped.
build_ask_user_question_reply(selected, options) ==
    {options[i] : i \in selected \cap DOMAIN options}

answers_response(pending, answers) ==
    [kind |-> pending.type,
     answers |-> [q \in DOMAIN answers |->
                    build_ask_user_question_reply(
                      answers[q],
                      IF q \in DOMAIN pending.keys THEN pending.keys[q] ELSE <<>>)]]

Confirmable == {"confirmation", "capability", "goal_proposal"}

\* A response whose shape does not fit the question builds nothing.
build_interrogative_response(pending, response) ==
    CASE response.shape = "cancelled" \/ pending.type = "unknown" -> Cancel
      [] pending.type \in Confirmable /\ response.shape = "confirmed" ->
           [kind |-> pending.type, granted |-> response.value]
      [] pending.type = "permission" /\ response.shape = "value" ->
           permission_response(pending, response.value)
      [] pending.type \in {"clarification", "plan_handoff"} /\ response.shape = "value" ->
           label_response(pending, response.value)
      [] pending.type = "ask_user_question" /\ response.shape = "answers" ->
           answers_response(pending, response.value)
      [] OTHER -> NoResponse
=============================================================================
