----------------------------- MODULE ProfileEdit -----------------------------
(***************************************************************************)
(* The profile of the connected user (layout/home/header.tsx): the dialog  *)
(* of the user, the dialog that edits the name and the picture, and the    *)
(* chain that saves them.  The name shown (curEditName) and the name saved *)
(* (user_info) are two states; so are the picture shown (editImg) and the  *)
(* file uploaded (img).  A picture is read in the background with the      *)
(* user_info of the render it was chosen in.                               *)
(***************************************************************************)
EXTENDS Naturals

CONSTANTS
    Accounts, NoAccount,
    Names,                 \* names users give themselves
    FirstNames,            \* the names the accounts have
    Photos, NoPhoto,
    MaxEdits,              \* bound: what the user does in the dialogs
    MaxSwitches            \* bound: disconnections

ASSUME ProfileAssumption ==
    /\ NoAccount \notin Accounts /\ NoPhoto \notin Photos /\ Accounts # {}
    /\ FirstNames \in [Accounts -> Names]
    /\ {MaxEdits, MaxSwitches} \subseteq Nat

VARIABLES
    profiles,   \* the launcher's: name and avatar of each account
    profUser,   \* the account connected
    profStored, \* the name in the local storage
    profForm,   \* the dialogs: user_info, curEditName, img and editImg
    profReads,  \* pictures being read, with the user_info they will put back
    profSave,   \* the chain of editUserInfo; isSave while it is not idle
    profLeft,   \* somebody disconnected while a chain was running
    profEdits, profSwitches

profVars == <<profiles, profUser, profStored, profForm, profReads, profSave, profLeft,
              profEdits, profSwitches>>

Picture == Photos \cup {NoPhoto}

\* typed: the name was typed since the dialog of the user was opened; lost: a picture put
\* back a name from before that.
ProfForm == [dialog : BOOLEAN, editing : BOOLEAN, name : Names, shown : Names, img : Picture,
             editImg : Picture, typed : BOOLEAN, lost : BOOLEAN]

NoSave == [pc |-> "idle"]

\* thrown: the chain ended in an exception, and the button loads for good.
SaveChain == [pc : {"upload", "set", "read", "thrown"}, by : Accounts,
              signer : Accounts \cup {NoAccount}, reads : Accounts \cup {NoAccount},
              form : ProfForm]

ProfileTypes ==
    /\ profiles \in [Accounts -> [name : Names, avatar : Picture]]
    /\ profUser \in Accounts \cup {NoAccount}
    /\ profStored \in Names
    /\ profForm \in ProfForm
    /\ profReads \subseteq [photo : Photos, name : Names, old : BOOLEAN]
    /\ profSave \in SaveChain \cup {NoSave}
    /\ profLeft \in BOOLEAN

\* A session is restored: the page starts with the stored name.
ProfileInit ==
    /\ profiles = [a \in Accounts |-> [name |-> FirstNames[a], avatar |-> NoPhoto]]
    /\ profUser = CHOOSE a \in Accounts : TRUE
    /\ profStored = FirstNames[profUser]
    /\ profForm = [dialog |-> FALSE, editing |-> FALSE, name |-> profStored,
                   shown |-> profStored, img |-> NoPhoto, editImg |-> NoPhoto,
                   typed |-> FALSE, lost |-> FALSE]
    /\ profReads = {} /\ profSave = NoSave /\ profLeft = FALSE
    /\ profEdits = 0 /\ profSwitches = 0

-----------------------------------------------------------------------------
Editing ==
    /\ profEdits < MaxEdits
    /\ profEdits' = profEdits + 1
    /\ UNCHANGED <<profiles, profUser, profStored, profSave, profLeft, profSwitches>>

\* openUserEditInfoOpen: user_info takes the stored name, the field of the name does not.
OpenUserEditInfoOpen ==
    /\ Editing
    /\ profUser # NoAccount /\ ~profForm.dialog
    /\ profForm' = [profForm EXCEPT !.dialog = TRUE, !.name = profStored,
                                    !.typed = FALSE, !.lost = FALSE]
    /\ UNCHANGED profReads

BtnUSerEditInfo ==
    /\ Editing
    /\ profForm.dialog /\ ~profForm.editing
    /\ profForm' = [profForm EXCEPT !.editing = TRUE]
    /\ UNCHANGED profReads

\* The picture shown goes, the file and the name stay.
Closed(form) == [form EXCEPT !.editing = FALSE, !.editImg = NoPhoto]

OpenUserEditInfoClose ==
    /\ Editing
    /\ profForm.editing
    /\ profForm' = Closed(profForm)
    /\ UNCHANGED profReads

OpenWalletLoginSuccessClose ==
    /\ Editing
    /\ profForm.dialog /\ ~profForm.editing
    /\ profForm' = [profForm EXCEPT !.dialog = FALSE]
    /\ UNCHANGED profReads

\* Faulty: only the field changes.
EditNameShown ==
    /\ Editing
    /\ profForm.editing
    /\ \E n \in Names \ {profForm.shown} :
          profForm' = [profForm EXCEPT !.shown = n, !.typed = TRUE, !.lost = FALSE]
    /\ profReads' = {[r EXCEPT !.old = TRUE] : r \in profReads}

EditNameChange ==
    /\ Editing
    /\ profForm.editing
    /\ \E n \in Names \ {profForm.shown} :
          profForm' = [profForm EXCEPT !.shown = n, !.name = n, !.typed = TRUE, !.lost = FALSE]
    /\ profReads' = {[r EXCEPT !.old = TRUE] : r \in profReads}

\* BtnPhoto: a picture is chosen; reader and image load it later.
BtnProfilePhoto ==
    /\ Editing
    /\ profForm.editing
    /\ \E p \in Photos :
          profReads' = profReads \cup {[photo |-> p, name |-> profForm.name, old |-> FALSE]}
    /\ UNCHANGED profForm

\* img.onload: user_info is again that of the render the picture was chosen in.
ProfilePhotoLoads ==
    /\ \E r \in profReads :
          /\ profReads' = profReads \ {r}
          /\ profForm' = [profForm EXCEPT !.img = r.photo, !.editImg = r.photo, !.name = r.name,
                                          !.lost = @ \/ r.old]
    /\ UNCHANGED <<profiles, profUser, profStored, profSave, profLeft, profEdits, profSwitches>>

\* BtnDisconnectWallet: the storage and the states of the form stay.
BtnDisconnectProfile ==
    /\ profSwitches < MaxSwitches
    /\ profSwitches' = profSwitches + 1
    /\ profForm.dialog /\ ~profForm.editing /\ profUser # NoAccount
    /\ profUser' = NoAccount
    /\ profForm' = [profForm EXCEPT !.dialog = FALSE, !.editImg = NoPhoto]
    /\ profLeft' = (profLeft \/ profSave.pc # "idle")
    /\ UNCHANGED <<profiles, profStored, profReads, profSave, profEdits>>

\* getUserInfo of a registered account that connects.  (The chain of the connection and
\* the registration are those of WalletSession.)
GetUserInfo ==
    /\ profUser = NoAccount
    /\ profUser' \in Accounts
    /\ profStored' = profiles[profUser'].name
    /\ profForm' = [profForm EXCEPT !.name = profStored', !.editImg = NoPhoto, !.typed = FALSE]
    /\ UNCHANGED <<profiles, profReads, profSave, profLeft, profEdits, profSwitches>>

\* SaveUserEditInfo and the start of editUserInfo: without a file the profile is set at once,
\* signed by the wallet that is connected.
SaveUserEditInfo ==
    /\ profForm.editing /\ profSave.pc = "idle"
    /\ profSave' = [pc |-> IF profForm.img # NoPhoto THEN "upload" ELSE "set", by |-> profUser,
                    signer |-> IF profForm.img # NoPhoto THEN NoAccount ELSE profUser,
                    reads |-> NoAccount, form |-> profForm]
    /\ UNCHANGED <<profiles, profUser, profStored, profForm, profReads, profLeft, profEdits,
                   profSwitches>>

\* The file is uploaded: whoever is connected by now signs, or the wallet whose actor is
\* still kept.
ProfileUploaded ==
    /\ profSave.pc = "upload"
    /\ \E s \in {profSave.by, profUser} \ {NoAccount} :
          profSave' = [profSave EXCEPT !.pc = "set", !.signer = s]
    /\ UNCHANGED <<profiles, profUser, profStored, profForm, profReads, profLeft, profEdits,
                   profSwitches>>

\* The upload fails, or edit_user is refused or rejected: the button is freed.
ProfileRefused ==
    /\ profSave.pc \in {"upload", "set"}
    /\ profSave' = NoSave
    /\ UNCHANGED <<profiles, profUser, profStored, profForm, profReads, profLeft, profEdits,
                   profSwitches>>

\* Ok: the profile of the account now connected is read, which throws if there is none.
ProfileSet ==
    /\ profSave.pc = "set"
    /\ profiles' = [profiles EXCEPT ![profSave.signer] =
                       [name |-> profSave.form.name,
                        avatar |-> IF profSave.form.img # NoPhoto THEN profSave.form.img
                                   ELSE @.avatar]]
    /\ profSave' = [profSave EXCEPT !.pc = IF profUser = NoAccount THEN "thrown" ELSE "read",
                                    !.reads = profUser]
    /\ UNCHANGED <<profUser, profStored, profForm, profReads, profLeft, profEdits, profSwitches>>

\* The profile is stored and the dialog closes.
ProfileRead ==
    /\ profSave.pc = "read"
    /\ profStored' = profiles[profSave.reads].name
    /\ profForm' = Closed(profForm)
    /\ profSave' = NoSave
    /\ UNCHANGED <<profiles, profUser, profReads, profLeft, profEdits, profSwitches>>

ProfileNext ==
    \/ OpenUserEditInfoOpen \/ BtnUSerEditInfo \/ OpenUserEditInfoClose
    \/ OpenWalletLoginSuccessClose \/ EditNameChange \/ BtnProfilePhoto \/ ProfilePhotoLoads
    \/ BtnDisconnectProfile \/ GetUserInfo
    \/ SaveUserEditInfo \/ ProfileUploaded \/ ProfileRefused \/ ProfileSet \/ ProfileRead

-----------------------------------------------------------------------------
(* Properties *)

\* What is saved is what the dialog shows: the name if it was typed since the dialog of the
\* user was opened and no picture chosen before that has been read since, and the picture
\* whenever one is shown (EditNameChange, BtnPhoto, editUserInfo).
SavedAsShown ==
    profSave.pc # "idle" =>
        /\ profSave.form.typed /\ ~profSave.form.lost => profSave.form.name = profSave.form.shown
        /\ profSave.form.editImg # NoPhoto => profSave.form.img = profSave.form.editImg

\* Unless somebody disconnects during a save, it is signed by the account that made it, it
\* ends without an exception, and the stored name is that of the account connected, as it
\* is (editUserInfo).
ProfileAgrees ==
    /\ ProfileTypes
    /\ SavedAsShown
    /\ ~profLeft =>
           /\ profSave.pc # "thrown"
           /\ profSave.pc \in {"set", "read"} => profSave.signer = profSave.by
           /\ profUser # NoAccount /\ profSave.pc # "read" =>
                  profStored = profiles[profUser].name

=============================================================================
