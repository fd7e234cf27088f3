------------------------------ MODULE MCItems -------------------------------
(***************************************************************************)
(* Definitions for the configuration that model-checks Items.              *)
(***************************************************************************)
EXTENDS Items

McFirst ==
  [id |-> "first", name |-> 2, kind |-> "file",
   fields |-> [f \in {"content", "filename"} |->
                 IF f = "content" THEN Value("first", "bytes", TRUE, TRUE, TRUE)
                 ELSE PublicText("first")]]

DocItem(id, name, kind) ==
  [id |-> id, name |-> name, kind |-> kind,
   fields |-> (Primary(kind) :> Value(id, "text", TRUE, FALSE, TRUE))]

(* A document that repeats a new and an existing name, and one that is      *)
(* refused after its first item.                                            *)
McDocs == {<<DocItem("d1", 3, "note"), DocItem("d2", 2, "token"), DocItem("d3", 3, "login")>>,
           <<DocItem("d1", 1, "note"), DocItem("d2", 0, "token")>>}

Add(name, kind, origin, form, extra, force, clip) ==
  [op |-> "add", name |-> name, kind |-> kind, origin |-> origin, form |-> form,
   extra |-> extra, force |-> force, clip |-> clip]
SetTask(name, field, delete, public) ==
  [op |-> "set", name |-> name, field |-> field, delete |-> delete, public |-> public,
   form |-> "text"]
GetTask(names, clip, raw, tty) ==
  [op |-> "get", names |-> names, field |-> "primary", clip |-> clip, raw |-> raw, tty |-> tty]
Export(plain, stdout, iKnow) ==
  [op |-> "export", plain |-> plain, stdout |-> stdout, iKnow |-> iKnow]

McTasks ==
  {Add(1, "auto", "generated", "text", {"password", "url"}, FALSE, FALSE),
   Add(2, "auto", "file", "bytes", {}, TRUE, TRUE),
   Add(1, "auto", "stdin", "key", {"public_key"}, FALSE, TRUE),
   Add(1, "ssh-key", "prompt", "text", {}, FALSE, FALSE),
   Add(0, "note", "prompt", "text", {}, FALSE, FALSE),
   SetTask(2, "primary", TRUE, FALSE), SetTask(2, "filename", FALSE, FALSE),
   [op |-> "rm", names |-> <<2, 2>>, force |-> FALSE],
   [op |-> "mv", name |-> 2, new |-> 1, force |-> TRUE],
   [op |-> "mv", name |-> 2, new |-> 1, force |-> FALSE],
   GetTask(<<1, 2>>, FALSE, FALSE, TRUE), GetTask(<<2>>, TRUE, FALSE, FALSE),
   [op |-> "show", name |-> 2, reveal |-> FALSE], [op |-> "show", name |-> 2, reveal |-> TRUE],
   [op |-> "ls"],
   [op |-> "import", mode |-> "Merge", force |-> FALSE],
   [op |-> "import", mode |-> "Overwrite", force |-> FALSE],
   [op |-> "import", mode |-> "Replace", force |-> FALSE],
   Export(FALSE, FALSE, FALSE), Export(TRUE, FALSE, TRUE), Export(TRUE, TRUE, TRUE)}
=============================================================================
