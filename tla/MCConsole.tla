------------------------------ MODULE MCConsole ------------------------------
(***************************************************************************)
(* Instances of Console for TLC.                                           *)
(***************************************************************************)
EXTENDS Console, TLC

App == <<"app">>
LongName == <<"long">>
LongNames == {LongName}

Lambdas ==
  {[appName |-> App, appProvider |-> <<"OpenLambdaMec">>,
    appSoftVersion |-> <<"1.0">>]}

aRouter == CHOOSE r \in Router : TRUE

(* A line of every kind; Empty is an empty token.                          *)
Lines ==
  {<<"associate", c, App, r>> : c \in {"*"} \cup Address, r \in Router}
    \cup {<<"remove", c, App>> : c \in {"*"} \cup Address}
    \cup {<<"associate", "*", Empty, aRouter>>, <<"remove", "*", Empty>>,
          <<"add-lambda", Empty>>, <<"add-lambda", App>>,
          <<"del-lambda", App>>, <<"num-contexts">>, <<"table">>,
          <<"contexts">>, <<"help">>, <<"quit">>, <<"associate">>, <<>>}

(* An application with a route.                                            *)
Prelude == <<<<"add-lambda", App>>, <<"associate", "*", App, aRouter>>>>

(* One console is used; the input of the others is empty.                  *)
used == CHOOSE t \in Thread : TRUE
onlyUsed(inputs) ==
  {[t \in Thread |-> IF t = used THEN s ELSE <<>>] : s \in inputs}

(* Any two lines.                                                          *)
OneConsole == onlyUsed({Prelude \o <<l, m>> : l \in Lines, m \in Lines})

(* Both change the routes.                                                 *)
TwoConsoles ==
  [Thread -> {Append(Prelude, <<"associate", c, App, r>>) :
                c \in {"*"} \cup Address, r \in Router}]

AnyConsoles == OneConsole \cup TwoConsoles

(* A name that AppInfo does not accept.                                    *)
WithLong == onlyUsed({<<<<"add-lambda", LongName>>, <<"table">>>>})
=============================================================================
