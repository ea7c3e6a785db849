----------------------------- MODULE MCOtaBoot -----------------------------
(***************************************************************************)
(* The TLC instance of OtaBoot: images of each kind of interest; one text  *)
(* is a part of two MD5s.                                                  *)
(***************************************************************************)
EXTENDS OtaBoot, TLC

CONSTANTS factory, small, fit, wide, huge, part

AllImages == {factory, small, fit, wide, huge}
AllKind == factory :> "fit" @@ small :> "small" @@ fit :> "fit"
           @@ wide :> "wide" @@ huge :> "huge"
AnyTarget == {small, fit, wide, huge, EmptyMd5, part}
AnyWithin == [t \in AnyTarget |-> CASE t = EmptyMd5 -> AllImages \cup {NoImage}
                                    [] t = part -> {fit, wide}
                                    [] OTHER -> {t}]
=============================================================================
