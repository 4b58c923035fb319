--------------------------- MODULE MCWorkflowStore ---------------------------
(***************************************************************************)
(* The documents of a finite instance of WorkflowStore.                    *)
(***************************************************************************)
EXTENDS WorkflowStore

\* Documents of every kind of provider, complete or not, and some with states that are visible twice.
Document(kind, provider, active, visible) ==
  [delimited |-> TRUE, prompt |-> TRUE, profile |-> "configured", kind |-> kind, provider |-> provider,
   active |-> active, terminal |-> <<"done">>, visible |-> visible]

ProviderSettings == [{"owner", "repo", "project_id", "assignee"} -> {"absent", "blank", "text", "number"}]
SomeProvider == [f \in {"owner", "repo", "project_id", "assignee"} |-> IF f = "assignee" THEN "absent" ELSE "text"]

SomeDocuments ==
  {Document(kind, provider, <<"todo">>, <<>>) :
     kind \in {"github", "GitHub", "gitlab", "local", "custom"}, provider \in ProviderSettings}
    \cup {Document("local", SomeProvider, active, visible) :
            active \in {<<>>, <<"todo">>, <<"todo", "doing">>},
            visible \in {<<>>, <<"doing">>, <<"backlog", "done">>, <<"todo", "todo">>}}

ThreeTexts ==
  {Document("local", SomeProvider, <<"todo">>, <<>>), Document("local", SomeProvider, <<"todo", "doing">>, <<>>),
   Document("local", SomeProvider, <<>>, <<>>)}
=============================================================================
