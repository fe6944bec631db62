----------------------------- MODULE MCSharing -----------------------------
(***************************************************************************)
(* Two publishers, p under Windows and m under Linux.                      *)
(***************************************************************************)
EXTENDS Sharing, TLC

CONSTANTS p, m

MCLower == [x \in {"/", "\\", "://", "c:", "d:", "assets", "2", "home", "logo.png",
                   AssetsToken} |-> x]
           @@ "C:" :> "c:" @@ "D:" :> "d:" @@ "Assets" :> "assets"
MCDrives == {"C:", "c:", "D:", "d:"}
MCDotted == {"logo.png"}

MCDir == p :> <<"C:", "\\", "Assets", "\\">> @@ m :> <<"/", "home", "/", "assets">>

\* In the folder, written otherwise than the folder; in a folder beside it;
\* elsewhere.
MCTyped ==
  p :> {<<"c:", "/", "assets", "/", "logo.png">>,
        <<"C:", "/", "Assets", "2", "/", "logo.png">>,
        <<"D:", "\\", "logo.png">>} @@
  m :> {<<"/", "home", "/", "assets", "/", "logo.png">>,
        <<"/", "logo.png">>}

\* A profile never opened on its video page, one with a complete section in the
\* middle and a key of the same name in another section.
Bare == <<Heading("General"), Setting("Name", "team")>>
Full == <<Heading("General"), Setting("Name", "solo"), Heading("Video"), Setting("FPSCommon", "60"),
          Setting("BaseCX", "hd"), Setting("Other", "x"), Heading("Output"),
          Setting("BaseCX", "own")>>
MCProfiles == p :> {Bare} @@ m :> {Full, NoProfile}

\* A common rate, and a rate that FPSCommon does not give.
MCPages == {Updates([size |-> "hd", fps |-> "30"], "0"),
            Updates([size |-> "uhd", fps |-> "30"], "1")}

=============================================================================
