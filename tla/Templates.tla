------------------------------- MODULE Templates -------------------------------
(***************************************************************************)
(* The words of a mail: a template is checked when it is saved, copied     *)
(* into a campaign, rendered with a contact's facts at the launch and sent *)
(* hours later with the opt-out line of that hour, while templates, facts  *)
(* and the line are edited.  Subject and body are one text.                *)
(*                                                                         *)
(* A text is a sequence of tokens <<kind, word>>: "var" is a placeholder   *)
(* _VAR_RE matches, "odd" braces it does not match, such as                *)
(* {{First Name}}, "text" anything else, "space" nothing to be seen.  The  *)
(* opt-out line is a text like the others: no one checks what it says.     *)
(***************************************************************************)
EXTENDS Integers, Sequences, SequencesExt

CONSTANTS
  Texts,     \* what users write
  Facts,     \* what may be known of the contact: variable -> text, <<>> for nothing
  Allowed,   \* TEMPLATE_VARIABLES, the domain of every fact
  Lines,     \* what the tenant's opt-out line may be
  DefaultLine \* DEFAULT_UNSUB_TEXT

IsText(t) == t \in Seq(ToSet(t))

TemplatesAssumption ==
  /\ \A t \in Texts \cup Lines \cup {DefaultLine} : IsText(t)
  /\ \A f \in Facts : DOMAIN f = Allowed /\ \A v \in Allowed : IsText(f[v])

VARIABLES
  template,  \* the stored template, or NoText
  draft,     \* the campaign's text, or NoText
  facts,     \* the contact's facts
  line,      \* the tenant's opt-out line, or NoText
  message,   \* the queued mail: [status, body, of, with]
  mailed     \* the last mail: [body, of, with, line, test]

vars == <<template, draft, facts, line, message, mailed>>

NoText    == <<>>
NoMessage == [status |-> "none"]
NoMail    == [test |-> TRUE]

Init ==
  /\ template = NoText /\ draft = NoText /\ message = NoMessage /\ mailed = NoMail
  /\ facts \in Facts /\ line \in Lines

-----------------------------------------------------------------------------
(* The renderer                                                             *)

UsedVariables(text) == {t[2] : t \in {x \in ToSet(text) : x[1] = "var"}}

\* Strict: every placeholder is a known variable the recipient has a value for.
Renders(text, with) == \A v \in UsedVariables(text) : v \in Allowed /\ with[v] # <<>>

\* A value goes in as it is.
Render(text, with) ==
  FlattenSeq([i \in DOMAIN text |-> IF text[i][1] = "var" THEN with[text[i][2]] ELSE <<text[i]>>])

Sample == [v \in Allowed |-> << <<"text", v>> >>]

Blank == << <<"space", " ">> >>
Rule  == << <<"text", "--">> >>

\* What is said of opting out: nothing if the line is blank.
Said(l) == IF l = NoText THEN DefaultLine ELSE IF l = Blank THEN <<>> ELSE l

\* append_unsubscribe_footer, unless the text says so already.
WithLine(text, l) ==
  IF Said(l) # <<>> /\ Said(l) \in SubSeqs(text) THEN text ELSE text \o (Rule \o Said(l))

-----------------------------------------------------------------------------
(* Templates, campaigns and settings                                        *)

\* create_template and update_template refuse unknown variables.
SaveTemplate(text) ==
  /\ UsedVariables(text) \subseteq Allowed
  /\ template' = text
  /\ UNCHANGED <<draft, facts, line, message, mailed>>

DeleteTemplate ==
  /\ template # NoText /\ template' = NoText
  /\ UNCHANGED <<draft, facts, line, message, mailed>>

\* create_campaign takes the text of the request, unchecked: the stored template's,
\* as the form copies it, or what the user has made of it.
CreateCampaign(text) ==
  /\ draft = NoText /\ text # NoText /\ draft' = text
  /\ UNCHANGED <<template, facts, line, message, mailed>>

Edit ==
  /\ \/ facts' \in Facts /\ UNCHANGED line
     \/ line' \in Lines /\ UNCHANGED facts
  /\ UNCHANGED <<template, draft, message, mailed>>

-----------------------------------------------------------------------------
(* Mails                                                                    *)

\* schedule_campaign: the contact is dropped if the text does not render.
Launch ==
  /\ draft # NoText
  /\ message' = IF Renders(draft, facts)
                THEN [status |-> "QUEUED", body |-> Render(draft, facts), of |-> draft, with |-> facts]
                ELSE NoMessage
  /\ UNCHANGED <<template, draft, facts, line, mailed>>

\* Mutant of Sendable: what was rendered at the launch is sent.
SendableAsIs(text) == TRUE

\* _safe_render: no placeholder may be left; a value may have brought one in.
Sendable(text) == UsedVariables(text) = {}

\* send_email_message; an error leaves the message QUEUED.
SendMessage ==
  /\ message.status = "QUEUED" /\ Sendable(message.body)
  /\ mailed' = [body |-> WithLine(message.body, line), of |-> message.of, with |-> message.with,
                line |-> line, test |-> FALSE]
  /\ message' = [message EXCEPT !.status = "SENT"]
  /\ UNCHANGED <<template, draft, facts, line>>

\* POST /campaigns/{id}/test: sample values or a contact's, and the default line.
TestSend(with) ==
  /\ draft # NoText /\ Renders(draft, with)
  /\ mailed' = [body |-> WithLine(Render(draft, with), DefaultLine), of |-> draft,
                with |-> with, line |-> DefaultLine, test |-> TRUE]
  /\ UNCHANGED <<template, draft, facts, line, message>>

Next ==
  \/ \E text \in Texts \cup {template} : SaveTemplate(text) \/ CreateCampaign(text)
  \/ DeleteTemplate \/ Edit \/ Launch \/ SendMessage
  \/ \E with \in {Sample, facts} : TestSend(with)

Spec == Init /\ [][Next]_vars

-----------------------------------------------------------------------------
(* Properties                                                               *)

\* Whatever was edited in between, a contact's mail has no placeholder from the template
\* or from the contact's facts in it, has in the place of each variable what was known
\* of the contact when the campaign was launched, and carries the opt-out line of the
\* hour.  outreach/renderer.py:6 says "instead of ever putting a literal {{X}} on the
\* wire": the opt-out line, appended after the last check, may still bring a placeholder
\* in or be blank, and braces that _VAR_RE does not match are mailed as they are.
MailedIsPersonal ==
  ~ mailed.test =>
    /\ UsedVariables(mailed.body) \subseteq UsedVariables(Said(mailed.line))
    /\ \A v \in UsedVariables(mailed.of) :
         mailed.with[v] # <<>> /\ ToSet(mailed.with[v]) \subseteq ToSet(mailed.body)
    /\ Said(mailed.line) \in SubSeqs(mailed.body)

=============================================================================
