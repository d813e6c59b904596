--------------------------- MODULE Authorization ---------------------------
(***************************************************************************)
(* The deterministic authorization policy (app/core/authorization.py):     *)
(* three roles and their permissions.  A caller has a SET of roles: a      *)
(* permission is granted if any of them carries it.                        *)
(***************************************************************************)

Role == {"Viewer", "Analyst", "PropertyManager"}

ToolPermission ==
    {"chat", "property.basic.read", "property.kpi.read",
     "property.retrieval.read", "property.analytics.read",
     "property.analytics.custom", "run.read", "run.cancel", "sql.approve"}

ViewerPermissions ==
    {"chat", "property.basic.read", "property.kpi.read",
     "property.retrieval.read", "run.read", "run.cancel"}

ROLE_PERMISSIONS ==
    [Viewer |-> ViewerPermissions,
     Analyst |-> ViewerPermissions
                 \cup {"property.analytics.read", "property.analytics.custom"},
     PropertyManager |-> ToolPermission]

\* authorize_permission without the property check.
Granted(roles, permission) ==
    \E role \in roles : permission \in ROLE_PERMISSIONS[role]
=============================================================================
