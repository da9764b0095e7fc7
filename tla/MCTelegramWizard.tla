-------------------------- MODULE MCTelegramWizard --------------------------
(* Instances of TelegramWizard for TLC. *)
EXTENDS TelegramWizard, TLC

CONSTANTS alice, bob, m1, m2, h1, h2, h3

MCOneUser == {alice}
MCUsers == {alice, bob}
MCMessage == {m1}
MCMessages == {m1, m2}
MCHandlers2 == {h1, h2}
MCHandlers3 == {h1, h2, h3}

(* One use case with every input required, one that takes none. *)
MCUseCases == {"form", "zero"}
MCForm == {"form"}
MCRequired == [uc \in UseCase |-> IF uc = "form" THEN Input ELSE {}]

(* A message is new, or an earlier process left a picker in it. *)
MCOldScreens == {"none", "clusters", "picker"}
MCNoOldScreens == {"none"}

MCSymmetry ==
  Permutations(User) \cup Permutations(Message) \cup Permutations(Goroutine)
=============================================================================
