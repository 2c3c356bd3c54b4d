----------------------------- MODULE CommentPost -----------------------------
(***************************************************************************)
(* Posting a comment with a picture (pages/ICPInfo/ICPInfo.tsx).  The      *)
(* picture is uploaded first; an effect on its reference sends the comment *)
(* with the draft of the render the reference arrived in.                  *)
(***************************************************************************)
EXTENDS Naturals

CONSTANTS
    Contents, Empty, \* what is typed as a comment; the empty text
    Pictures,        \* references of the image service
    NoPicture,
    Posts,           \* slots for comments being posted
    MaxDrafts,       \* bound: changes of the draft
    MaxFaults        \* bound: calls that fail

ASSUME PostAssumption ==
    /\ NoPicture \notin Pictures /\ Empty \in Contents
    /\ Posts \subseteq Nat
    /\ {MaxDrafts, MaxFaults} \subseteq Nat

VARIABLES
    draft,        \* addCommentParams, EditImg and initialized
    ispostreply,  \* the button loads
    posting,      \* the chains of BtnPostreply
    userId,       \* whether somebody is connected
    drafts, faults

postVars == <<draft, ispostreply, posting, userId, drafts, faults>>

Comment == [content : Contents, image : Pictures \cup {NoPicture}]

NoComment == [content |-> Empty, image |-> NoPicture]

\* written: the draft at the click and whether it had a picture; sent: what add_comment got.
Post == [pc : {"idle", "upload", "add", "points", "over"},
         written : Contents, pictured : BOOLEAN, sent : Comment]

NoPost == [pc |-> "idle", written |-> Empty, pictured |-> FALSE, sent |-> NoComment]

PostTypes ==
    /\ draft \in [content : Contents, image : Pictures \cup {NoPicture},
                  file : BOOLEAN, initialized : BOOLEAN]
    /\ ispostreply \in BOOLEAN
    /\ posting \in [Posts -> Post]
    /\ userId \in BOOLEAN

PostInit ==
    /\ draft = [content |-> Empty, image |-> NoPicture, file |-> FALSE, initialized |-> FALSE]
    /\ ispostreply = FALSE
    /\ posting = [k \in Posts |-> NoPost]
    /\ userId = FALSE
    /\ drafts = 0 /\ faults = 0

-----------------------------------------------------------------------------
Faulted == faults < MaxFaults /\ faults' = faults + 1

Drafting ==
    /\ drafts < MaxDrafts
    /\ drafts' = drafts + 1
    /\ UNCHANGED <<ispostreply, posting, userId, faults>>

TypeContent(c) == Drafting /\ c # draft.content /\ draft' = [draft EXCEPT !.content = c]

\* Somebody connects.
Connects ==
    /\ ~userId
    /\ userId' = TRUE
    /\ UNCHANGED <<draft, ispostreply, posting, drafts, faults>>

BtnPhoto == Drafting /\ draft' = [draft EXCEPT !.file = TRUE]

\* ReqAddComment: without a user the wallet dialog opens, and nothing is sent.
ReqAddComment(k, post, comment) ==
    IF userId
    THEN /\ ispostreply' = TRUE
         /\ posting' = [posting EXCEPT ![k] = [post EXCEPT !.pc = "add", !.sent = comment]]
    ELSE /\ posting' = [posting EXCEPT ![k].pc = "over"]
         /\ UNCHANGED ispostreply

\* BtnPostreply.  The button loads only once the comment is sent, so it can be clicked
\* again while a picture is uploaded.
BtnPostreply(k) ==
    LET post == [NoPost EXCEPT !.pc = "upload", !.written = draft.content, !.pictured = draft.file]
    IN  /\ draft.content # Empty /\ ~ispostreply
        /\ posting[k].pc = "idle" /\ \A j \in Posts : j < k => posting[j].pc # "idle"
        /\ IF draft.file
           THEN posting' = [posting EXCEPT ![k] = post] /\ UNCHANGED <<draft, ispostreply>>
           ELSE /\ draft' = [draft EXCEPT !.image = NoPicture]
                /\ ReqAddComment(k, post, [content |-> draft.content, image |-> NoPicture])
        /\ UNCHANGED <<userId, drafts, faults>>

\* Faulty: the reference is put into the draft of now.
UploadDoneNow(k) ==
    /\ posting[k].pc = "upload"
    /\ \E i \in Pictures :
         /\ draft' = [draft EXCEPT !.image = i, !.initialized = TRUE]
         /\ ReqAddComment(k, posting[k], [content |-> draft.content, image |-> i])
    /\ UNCHANGED <<userId, drafts, faults>>

\* The picture is uploaded: the draft is again that of the click, with the reference, and
\* the effect on the reference sends it, which it does not if it has not changed.
UploadDone(k) ==
    /\ posting[k].pc = "upload"
    /\ \E i \in Pictures :
         /\ draft' = [draft EXCEPT !.content = posting[k].written, !.image = i,
                                   !.initialized = TRUE]
         /\ IF i # draft.image \/ ~draft.initialized
            THEN ReqAddComment(k, posting[k], [content |-> posting[k].written, image |-> i])
            ELSE posting' = [posting EXCEPT ![k].pc = "over"] /\ UNCHANGED ispostreply
    /\ UNCHANGED <<userId, drafts, faults>>

UploadFails(k) ==
    /\ posting[k].pc = "upload"
    /\ Faulted
    /\ draft' = [draft EXCEPT !.file = FALSE]
    /\ ispostreply' = FALSE
    /\ posting' = [posting EXCEPT ![k].pc = "over"]
    /\ UNCHANGED <<userId, drafts>>

\* Ok: the page takes the picture out of the draft and reads the user's points.
CommentAnswered(k) ==
    /\ posting[k].pc = "add"
    /\ posting' = [posting EXCEPT ![k].pc = "points"]
    /\ draft' = [draft EXCEPT !.file = FALSE]
    /\ UNCHANGED <<ispostreply, userId, drafts, faults>>

\* The points arrive or do not, or the comment was refused: the button is freed.
PostEnds(k) ==
    /\ posting[k].pc \in {"add", "points"}
    /\ IF posting[k].pc = "add" THEN Faulted ELSE UNCHANGED faults
    /\ ispostreply' = FALSE
    /\ posting' = [posting EXCEPT ![k].pc = "over"]
    /\ UNCHANGED <<draft, userId, drafts>>

PostNext ==
    \/ \E c \in Contents : TypeContent(c)
    \/ BtnPhoto \/ Connects
    \/ \E k \in Posts :
          \/ BtnPostreply(k) \/ UploadDone(k) \/ UploadFails(k)
          \/ CommentAnswered(k) \/ PostEnds(k)

-----------------------------------------------------------------------------
(* Properties *)

\* A comment is sent as it was when its button was clicked, and with a picture if one was
\* chosen then, whatever was typed while the picture was uploaded (BtnPostreply and the
\* effect on addCommentParams).
PostsAgree ==
    /\ PostTypes
    /\ \A k \in Posts : posting[k].pc \in {"add", "points"} =>
           /\ posting[k].sent.content = posting[k].written
           /\ posting[k].pictured <=> posting[k].sent.image # NoPicture

=============================================================================
