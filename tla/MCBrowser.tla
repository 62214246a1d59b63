------------------------------ MODULE MCBrowser ------------------------------
(***************************************************************************)
(* One tab of the browser, on one part of the web application: signing in  *)
(* and the workspaces, a table, a security page, or a call that fails.     *)
(***************************************************************************)
EXTENDS WebSession, Panels, SecondFactor, ErrorPath, TLC

VARIABLE part

tab == <<part, vars, panelVars, factorVars, failure>>

MCTenantOf == ("ana" :> "acme") @@ ("bob" :> "acme") @@ ("cyd" :> "acme") @@ ("zoe" :> "globex")

BrowserInit ==
    /\ part \in {"session", "table", "factor", "failure"}
    /\ Init /\ PanelInit /\ FactorInit /\ ErrorInit
    /\ part = "table" <=> table # NoTable
    /\ part = "factor" <=> realm # "no page"
    /\ part # "factor" => ~factor.on

BrowserNext ==
    /\ \/ part = "session" /\ Next /\ UNCHANGED <<panelVars, factorVars, failure>>
       \/ part = "table" /\ PanelNext /\ UNCHANGED <<vars, factorVars, failure>>
       \/ part = "factor" /\ FactorNext /\ UNCHANGED <<vars, panelVars, failure>>
       \/ part = "failure" /\ ErrorNext /\ UNCHANGED <<vars, panelVars, factorVars>>
    /\ UNCHANGED part

BrowserSpec == BrowserInit /\ [][BrowserNext]_tab /\ AnswersCome
=============================================================================
