-------------------------- MODULE MCAccessControl --------------------------
(* Small instances of AccessControl. *)
EXTENDS AccessControl

CONSTANTS root, second, user, app, other, key

\* One replica is started with the administrator root, any other with none.
MCFlag == LET first == CHOOSE r \in Replica : TRUE IN [r \in Replica |-> IF r = first THEN root ELSE NoId]

\* Every replica serves someone.
MCHost == CHOOSE f \in [Request -> Replica] : \A r \in Replica : \E p \in Request : f[p] = r

Of(action) == [action |-> action, application |-> NoApplication, id |-> NoId, address |-> NoAddress,
               roles |-> {}, notification |-> FALSE]
In(action, a, i) == [Of(action) EXCEPT !.application = a, !.id = i]

Sign == [Of("rpc.method.eth_signTransaction") EXCEPT !.address = key]
SignTyped == [Of("rpc.method.eth_signTypedData") EXCEPT !.address = key, !.notification = TRUE]

Ask(by, header, calls) == [by |-> by, header |-> header, calls |-> calls]
One(by, header, call) == Ask(by, header, <<call>>)

\* The first administrator appoints and removes the second, who removes the
\* first, or goes itself; neither a user nor a header with an application will do.
AdminCalls ==
    {One(i, NoApplication, [Of("admin.users.create") EXCEPT !.id = second]) : i \in {root, user}}
      \cup {One(root, app, [Of("admin.users.create") EXCEPT !.id = second]),
            One(root, NoApplication, [Of("admin.users.remove") EXCEPT !.id = second]),
            One(second, NoApplication, [Of("admin.users.remove") EXCEPT !.id = root]),
            One(root, NoApplication, [Of("admin.users.remove") EXCEPT !.id = root])}

\* The administrator of an application edits its users, and tries a role and
\* an application too many; an administrator gives and takes accounts.
UserCalls ==
    {One(user, app, [In("application.users.edit", app, user) EXCEPT !.roles = r]) :
        r \in {{"transaction-signer"}, {"application-admin", "signer-admin"}}}
      \cup {One(user, app, In("application.users.remove", a, user)) : a \in {app, other}}
      \cup {One(root, NoApplication, [In("application.users.create", app, user) EXCEPT !.roles = {"transaction-signer"}])}
      \cup {One(root, NoApplication, [In(x, app, user) EXCEPT !.address = key]) :
              x \in {"application.accounts.create", "application.accounts.remove"}}

\* Batches with a notification, a signer that cannot be parsed, an unknown
\* method, and one call too many.
KeyCalls ==
    {Ask(user, app, <<Of("rpc.method"), SignTyped>>),
     Ask(user, app, <<SignTyped, Of("rpc.method"), Sign>>), Ask(user, app, <<Sign, SignTyped>>),
     Ask(user, app, <<Of("rpc.method.eth_signTransaction"), Of("rpc.method.eth_accounts")>>)}

MCCalls == AdminCalls \cup UserCalls \cup KeyCalls

MCUsers == {<<app, user, {"application-admin", "transaction-signer"}>>}
MCAccounts == {<<app, user, key>>}
=============================================================================
