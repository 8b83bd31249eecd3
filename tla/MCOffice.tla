------------------------------- MODULE MCOffice -------------------------------
(* Menus for Office: what the concurrent requests of one behaviour ask for.      *)
EXTENDS Office

ChatMenu(ops, by, n) == [ops |-> ops, by |-> by, calls |-> n]
MCMenus == {ChatMenu({"add", "remove", "role_owner", "role_member", "join"}, {"ann", "bob", "eve"}, 2),
            ChatMenu({"send", "edit", "archive", "reopen", "rename", "remove"}, {"ann", "bob", "eve"}, 2),
            ChatMenu({"upload", "send", "discard", "delete"}, {"bob"}, 3),
            ChatMenu({"react", "unreact", "archive", "delete"}, {"ann", "bob"}, 2),
            ChatMenu({"mark", "send", "delete"}, {"ann", "bob"}, 3)}
CaseMenu(ops, n, open, docs, late) == [ops |-> ops, jobs |-> n, open |-> open, docs |-> docs, late |-> late]
MCCaseMenus == {CaseMenu({"open", "delete"}, 3, {}, {}, FALSE),
                CaseMenu({"stage_new", "stage_edit", "stage_delete"}, 3, {"c1"}, {}, FALSE),
                CaseMenu({"open", "move", "stage_edit", "stage_delete"}, 3, {"c1"}, {}, FALSE),
                CaseMenu({"doc_add", "doc_drop", "upload", "delete"}, 3, {"c1"}, {"d1"}, FALSE),
                CaseMenu({"update", "reply", "note", "protocol", "used", "move", "delete"}, 2, {"c1"}, {}, TRUE)}
===============================================================================
