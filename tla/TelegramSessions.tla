-------------------------- MODULE TelegramSessions --------------------------
(***************************************************************************)
(* The Telegram adapter's wizard store (internal/platform/telegram/        *)
(* session.go), for one chat: every key of it starts with the chat, so     *)
(* chats do not share entries.  Each method runs under sessions.mu and is  *)
(* one atomic operation here.                                              *)
(*                                                                         *)
(* Deadlines are abstracted: any amount of time can pass between two       *)
(* steps, so a session can expire whenever it exists (sweep).              *)
(***************************************************************************)
EXTENDS Integers

CONSTANTS
  User,       \* Telegram users writing in the chat
  Message,    \* the bot's messages in the chat
  UseCase,    \* use cases that can be picked
  NInput,     \* number of input names
  NoMessage, NoSession

ASSUME InputAssumption == NInput \in Nat

(* Input names in their sorted order, the order they are asked in. *)
Input == 1 .. NInput
NoInput == 0

(* An input's value is abstracted to who typed it; a blank value counts as *)
(* missing, like an absent one.                                            *)
Blank == "blank"
Value == User \cup {Blank}
NoInputs == [i \in Input |-> Blank]

(* type pending. *)
Pending == [usecase : UseCase, user : User,
            next : Input \cup {NoInput}, collected : [Input -> Value]]

ASSUME NoneAssumption == NoMessage \notin Message /\ NoSession \notin Pending

VARIABLES
  byM,   \* Message -> its pending wizard, or NoSession
  byU    \* User -> the message of the user's wizard, or NoMessage

sessVars == <<byM, byU>>

SessInit ==
  /\ byM = [m \in Message |-> NoSession]
  /\ byU = [u \in User |-> NoMessage]

(* byM without the wizard of message m; m may be NoMessage. *)
Without(m) == [n \in Message |-> IF n = m THEN NoSession ELSE byM[n]]

(* Mutant: the user's previous wizard stays. *)
beginOver(m, u, uc) ==
  /\ byM' = [byM EXCEPT ![m] =
               [usecase |-> uc, user |-> u, next |-> NoInput, collected |-> NoInputs]]
  /\ byU' = [byU EXCEPT ![u] = m]

(* Drop the user's previous wizard, then open one at message m. *)
begin(m, u, uc) ==
  /\ byM' = [Without(byU[u]) EXCEPT ![m] =
               [usecase |-> uc, user |-> u, next |-> NoInput, collected |-> NoInputs]]
  /\ byU' = [byU EXCEPT ![u] = m]

(* Replace the inputs and the awaited one; nothing when the wizard is gone. *)
update(m, collected, next) ==
  /\ byM' = IF byM[m] = NoSession THEN byM
            ELSE [byM EXCEPT ![m].collected = collected, ![m].next = next]
  /\ byU' = byU

(* Mutant: the index entry stays. *)
endWizardOnly(m) == byM' = Without(m) /\ byU' = byU

(* Drop message m's wizard and its owner's index entry. *)
end(m) ==
  IF byM[m] = NoSession THEN UNCHANGED sessVars
  ELSE /\ byU' = [byU EXCEPT ![byM[m].user] = NoMessage]
       /\ byM' = Without(m)

(* replyContext finds a wizard of user u that awaits an input. *)
AwaitsReply(u) ==
  /\ byU[u] # NoMessage
  /\ byM[byU[u]] # NoSession
  /\ byM[byU[u]].next # NoInput

(* The wizard at m has outlived its deadline; sweep does what end does. *)
sweep(m) == byM[m] # NoSession /\ end(m)

-----------------------------------------------------------------------------
SessTypeOK ==
  /\ byM \in [Message -> Pending \cup {NoSession}]
  /\ byU \in [User -> Message \cup {NoMessage}]

(* A wizard is where its owner's index says it is; so a user never has two *)
(* wizards in a chat (begin's "one active wizard per user per chat").      *)
OneWizardPerUser ==
  \A m \in Message : byM[m] # NoSession => byU[byM[m].user] = m

(* The other direction: what the index says of a user is a wizard of that  *)
(* user.                                                                   *)
IndexedIsOwn ==
  \A u \in User : byU[u] # NoMessage =>
    byM[byU[u]] # NoSession /\ byM[byU[u]].user = u
=============================================================================
