---------------------------- MODULE Requirement ----------------------------
(***************************************************************************)
(* What the first step of the pipeline makes of a tracker's answer, of an  *)
(* uploaded PDF or of a pasted text: an error of its own, or a ticket with *)
(* as many attachments as the settings have room for                       *)
(* (backend/app/steps/jira_fetch.py, mantis_fetch.py, document_fetch.py,   *)
(* requirement_text.py, and the dispatch of steps/__init__.py).            *)
(***************************************************************************)
EXTENDS Integers, Sequences

CONSTANTS
  MaxCount,  \* jira_attachment_max_count
  MaxTotal,  \* jira_attachment_max_total_chars
  Heading,   \* characters of "<file name>:\n"
  Mark       \* characters of "[... document truncated ...]"

ASSUME RequirementAssumption ==
  /\ MaxCount \in Nat /\ MaxTotal \in Nat \ {0}
  /\ Heading \in Nat \ {0} /\ Mark \in Nat \ {0}

Sources == {"JIRA", "MANTIS", "DOCUMENT", "TEXT"}
Trackers == {"JIRA", "MANTIS"}

-----------------------------------------------------------------------------
(* What each source may meet; every one but "content" fails the job with an *)
(* error of its own.                                                       *)

\* Jira hides an issue from a login it rejects: a 404 to the shared login is
\* looked into with /myself, and only a clear refusal there changes the error.
JiraAnswers ==
  {"no login", "unreachable", "unauthorized", "missing", "hidden", "unexpected", "empty", "content"}

\* Both transports: a REST status, or a SOAP fault, unreadable or without a result.
MantisAnswers ==
  {"not configured", "no secret", "unreachable", "unauthorized", "missing", "unexpected",
   "unreadable", "empty", "content"}

\* The parse runs in a thread under a time limit.
DocumentAnswers == {"lost", "not a PDF", "slow", "malformed", "blank", "content"}

TextAnswers == {"blank", "content"}

\* fetch_requirement.
Answers ==
  [JIRA |-> JiraAnswers, MANTIS |-> MantisAnswers, DOCUMENT |-> DocumentAnswers,
   TEXT |-> TextAnswers]

Refusals(source) == Answers[source] \ {"content"}

-----------------------------------------------------------------------------
(* Attachments: only PDFs, best effort.  "named" is a PDF by its file name *)
(* alone; "understated" one that is larger than the tracker says.          *)

Attachment ==
  [ declared : {"pdf", "named", "other"}, size : {"fits", "over", "understated"},
    content : {"pdf", "unavailable", "other", "malformed", "blank"}, chars : Nat ]

\* _fetch_one_pdf_attachment of jira_fetch.py: the size is the one Jira states.
JiraUsable(a) == a.declared = "pdf" /\ a.size # "over" /\ a.content = "pdf"

\* The one of mantis_fetch.py: the size is looked at again once downloaded.
MantisUsable(a) == a.declared # "other" /\ a.size = "fits" /\ a.content = "pdf"

Usable(source, a) == IF source = "JIRA" THEN JiraUsable(a) ELSE MantisUsable(a)

\* extract_pdf_text: cut at the limit, and the cut is marked.
Extracted(chars, limit) == IF chars > limit THEN limit + Mark ELSE chars

\* Variant: the room is not used up.
TakeAttachmentFreely(source, taken, a) ==
  LET text == Heading + Extracted(a.chars, taken.room)
  IN IF taken.room > 0 /\ Usable(source, a) THEN [taken EXCEPT !.chars = @ + text] ELSE taken

\* One turn of the loop of fetch_attachment_texts.
TakeAttachment(source, taken, a) ==
  LET text == Heading + Extracted(a.chars, taken.room)
  IN IF taken.room > 0 /\ Usable(source, a)
       THEN [room |-> taken.room - text, chars |-> taken.chars + text]
       ELSE taken

\* The characters of all the texts it returns.
AttachedChars(source, attachments) ==
  LET turns == IF Len(attachments) < MaxCount THEN Len(attachments) ELSE MaxCount
      taken[n \in 0..turns] ==
        IF n = 0 THEN [room |-> MaxTotal, chars |-> 0]
        ELSE TakeAttachment(source, taken[n - 1], attachments[n])
  IN  taken[turns].chars
=============================================================================
