----------------------------- MODULE MCExtraction -----------------------------
(* Instance of Extraction for TLC. *)
EXTENDS Extraction, TLC

Pay == <<"PAY", 1>>
Inc == <<"INC", 1>>

Object(form, id) ==
    [form |-> form, id |-> id, repo |-> "checkout", channel |-> "oncall", user |-> "ann",
     status |-> "open", service |-> "billing", text |-> <<Pay>>]
OneOfEach ==
    {Object("pull", 1), Object("issue", 2), Object("commit", 3), Object("release", 4),
     Object("message", 5), Object("ticket", Pay), Object("page", 6), Object("meeting", 7),
     Object("incident", 8)}

\* The events of the synthetic scenario, and an update that does not state the schedule.
Triggered == Raw("pagerduty", "incident_triggered", Incident(Inc), Null, <<>>,
                 ("status" :> "triggered") @@ ("service" :> "billing") @@ ("assignee" :> "dana"))
Planned == Raw("jira", "ticket_updated", Ticket(Pay), Null, <<>>,
               ("status" :> "open") @@ ("blocks" :> <<"checkout">>)
               @@ ("blocked_by_incidents" :> <<Inc>>) @@ ("deploy_scheduled_at" :> 2))
Updated == Raw("jira", "ticket_updated", Ticket(Pay), Null, <<>>,
               ("status" :> "open") @@ ("blocks" :> <<"checkout">>))
Merged == Raw("github", "pr_merged", <<"github", "checkout", "pr", 1>>, "arjun", <<Pay>>,
              ("repo" :> "checkout") @@ ("touches_services" :> <<"billing">>))
Discussed == Raw("slack", "thread_message", <<"slack", "oncall", 1>>, "dana", <<Inc, Pay>>,
                 "channel" :> "oncall")
Meets == Raw("calendar", "meeting_scheduled", <<"cal", 1>>, Null, <<>>,
             "references_projects" :> <<"payments">>)
Page == Raw("notion", "page_updated", <<"notion", 1>>, Null, <<>>, <<>>)

Stories == {<<Triggered, Planned, Discussed>>, <<Merged, Planned, Triggered>>,
            <<Discussed, Updated>>, <<Meets, Page, Meets>>}
=============================================================================
