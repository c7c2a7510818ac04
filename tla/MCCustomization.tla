-------------------------- MODULE MCCustomization --------------------------
(* Customization with the module m, whose roster has the agent a-dev, and k, *)
(* which has a-pm, the guest x-dev and an a-dev of its own.  dev is the short *)
(* form of a-dev and of x-dev; only party mode shortens a-pm.                 *)
EXTENDS Customization

MCRoots == <<"c">>
MCSkills == <<"k", "m", "party", "s-dev", "s-pm">>
MCFold == ("m" :> "m") @@ ("k" :> "k")
MCModuleOrder == <<"k", "m">>

Of(code, name, skill) == [code |-> code, name |-> name, skill |-> skill]
MCContent ==
    [pn \in {"c"} \X Range(MCSkills) |->
       CASE pn[2] = "m" -> [NoFile EXCEPT !.file = "bmod.toml", !.code = "m", !.version = Release(1),
                              !.skills = {"s-dev"},
                              !.roster = <<Of("a-dev", "amy", "s-dev")>>]
         [] pn[2] = "k" -> [NoFile EXCEPT !.file = "bmod.toml", !.code = "k", !.version = Release(1), !.skills = {"s-pm"},
                              !.roster = <<Of("a-dev", "kim", "s-other"), Of("a-pm", "", "s-pm"), Of("x-dev", "zed", "")>>]
         [] pn[2] = "party" -> [NoFile EXCEPT !.file = "bmod.toml", !.skill = TRUE]
         [] OTHER -> [NoFile EXCEPT !.file = "bmod.toml", !.skill = TRUE, !.bmod = "m"]]

MCStartDisks ==
    {[pn \in Places \X Names |-> IF pn[2] \in there THEN pn[1] ELSE NoPlace] :
       there \in {{"m", "party", "s-dev"}, {"k", "m", "party", "s-dev"}}}

Item(code, name, num) == [code |-> code, name |-> name, num |-> num]
MCBase == <<[code |-> "ann", name |-> "bea", num |-> NoNum, by |-> "base"]>>
MCWritten ==
    {Item("ann", "bob", NoNum), Item("dev", "a-dev", 2), Item("a-dev", "", NoNum),
     Item(NoCode, "five", NoNum), Item(BadCode, "eve", NoNum)}
\* No override; a file that retunes a review layer and one that adds, with an
\* assignment that turns one off; two assignments of one list; a stray key.
Call(file, stray, sets) == [file |-> file, stray |-> stray, sets |-> sets]
Over(code, name, by) == [code |-> code, name |-> name, num |-> NoNum, by |-> by]
MCCalls ==
    {Call(<<>>, FALSE, <<>>),
     Call(<<Over("dev", "tim", "file"), Over("zoe", "zoe", "file")>>, FALSE,
          <<[path |-> Key, items |-> <<Over("ann", "", "set"), Over("zoe", "zed", "set")>>]>>),
     Call(<<>>, FALSE, <<[path |-> Key, items |-> <<Over("ann", "x", "set")>>],
                         [path |-> <<"workflow">>, items |-> <<Over("dev", "y", "set")>>]>>),
     Call(<<Over(NoCode, "loose", "file")>>, FALSE, <<>>),
     Call(<<>>, TRUE, <<>>)}
MCBaseName == ("s-dev" :> "amelia")
MCNicknames == {"bob"}
MCCentral == {[code |-> "a-pm", name |-> "pam"], [code |-> "x-dev", name |-> ""]}
MCOffered == <<[code |-> "g", members |-> <<"a-dev", "dev", "pm">>]>>
MCOwnGroups == {[code |-> "g", members |-> <<"ann", "amelia">>], [code |-> "h", members |-> <<>>]}
MCDefaults == {"g", "h"}
MCRows == <<[code |-> "r1", name |-> "five", num |-> 1, by |-> "base"], [code |-> "r2", name |-> "bob", num |-> 2, by |-> "base"]>>

MCCodes == {"a-dev", "a-pm", "x-dev", "ann", "dev", "bob"}
MCPartyAlias == [c \in MCCodes |-> CASE c \in {"a-dev", "x-dev"} -> "dev" [] c = "a-pm" -> "pm" [] OTHER -> c]
MCForgeAlias == [c \in MCCodes |-> CASE c \in {"a-dev", "x-dev"} -> "dev" [] OTHER -> c]

=============================================================================
