------------------------------ MODULE MCConfig ------------------------------
(* One required and one optional parameter, one the schema does not know,  *)
(* which is how the optional one begins, and the path of a message; a      *)
(* watcher of the manager and one with an owner.  The texts are a word     *)
(* that is read as a boolean, a number not in its printed form, and one    *)
(* that is another number once it was printed.  The number cut short reads *)
(* as a boolean.                                                           *)
EXTENDS Config, TLC

MCPath == "/etc/svc.conf"
MCKeys == <<MCPath, "deb", "debug", "port">>
MCTexts == {"on", "+10", "1.0"}
MCNumeral == "0" :> "0" @@ "1" :> "1" @@ "10" :> "10" @@ "+10" :> "10"
MCDecimal == "1.0" :> "1"
MCCuts == "debug" :> {"deb"} @@ "10" :> {"1"}

MCLines ==
    [wording : {"invalid parameter", "Syntax error"}, service : {"svc", "other"},
     path : {MCPath, "none"}, error : {"message"}]
=============================================================================
