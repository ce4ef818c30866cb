------------------------------- MODULE Transform -------------------------------
(***************************************************************************)
(* The built-in plugins that change a request or its response              *)
(* (internal/plugin/builtin). A plugin context is [method, host, path,     *)
(* captures, requestID, fields, status]: fields maps <<"header", name>>,   *)
(* <<"query", name>> and, for the headers of the response,                 *)
(* <<"response", name>> to their values. Texts are sequences.              *)
(*                                                                         *)
(* A template is a sequence of parts [var, key]: a text (var is "") or a   *)
(* variable; the key of a group of an expression is <<number>>. Of the     *)
(* variables those of the request are modelled; the others (times, sizes,  *)
(* addresses, IDs of resources) are data. Bodies and their content type    *)
(* are left out.                                                           *)
(***************************************************************************)
EXTENDS Order, TLC

Values(pc, field) == IF field \in DOMAIN pc.fields THEN pc.fields[field] ELSE <<>>
Get(pc, field) == IF Values(pc, field) = <<>> THEN <<>> ELSE Head(Values(pc, field))

SetField(pc, field, value) == [pc EXCEPT !.fields = field :> <<value>> @@ @]
AddField(pc, field, value) == [pc EXCEPT !.fields = field :> Append(Values(pc, field), value) @@ @]
DelField(pc, field) == [pc EXCEPT !.fields = [f \in DOMAIN @ \ {field} |-> @[f]]]

\* A group that the expression does not have is empty, as is an unknown variable.
captured(captures, part) == IF Head(part.key) \in DOMAIN captures THEN captures[Head(part.key)] ELSE <<>>

resolveRequestVariable(pc, part) ==
  CASE part.var = "capture"    -> captured(pc.captures, part)
    [] part.var = "field"      -> Get(pc, part.key)
    [] part.var = "uri"        -> pc.path
    [] part.var = "host"       -> pc.host
    [] part.var = "request_id" -> pc.requestID
    [] OTHER                   -> <<>>

renderRequestTemplate(pc, template) ==
  Flatten([i \in DOMAIN template |->
    IF template[i].var = "" THEN template[i].key ELSE resolveRequestVariable(pc, template[i])])

-----------------------------------------------------------------------------
(* The path *)

Rooted(path) == IF path # <<>> /\ Head(path) = "/" THEN path ELSE <<"/">> \o path

\* SetPath of Hertz puts a slash in front and makes one slash of several.
SetRequestPath(pc, path) ==
  LET rooted == Rooted(path)
      kept == {i \in DOMAIN rooted : i > 1 /\ rooted[i] = "/" => rooted[i - 1] # "/"}
  IN  [pc EXCEPT !.path = At(rooted, kept)]

\* The first rule that matches. A rule [pre, replacement] stands for the
\* expression ^pre(.*)$. ReplaceAllString has replaced every variable, names it
\* does not know by nothing, before the template is rendered: what is left of a
\* path and of texts without "$" is rendered as it stands.
rewritePathRegex(pc, rules) ==
  LET hits == {i \in DOMAIN rules : IsPrefix(rules[i].pre, pc.path)}
      rule == rules[CHOOSE i \in hits : \A j \in hits : i <= j]
      captures == <<SubSeq(pc.path, Len(rule.pre) + 1, Len(pc.path))>>
      replaced == Flatten([i \in DOMAIN rule.replacement |->
                    LET part == rule.replacement[i]
                    IN  IF part.var = "" THEN part.key
                        ELSE IF part.var = "capture" THEN captured(captures, part) ELSE <<>>])
  IN  IF hits = {} THEN pc ELSE SetRequestPath([pc EXCEPT !.captures = captures], replaced)

replacePath(pc, template) == SetRequestPath(pc, Rooted(renderRequestTemplate(pc, template)))

\* The first prefix that fits, whether or not it ends with a segment.
stripPrefix(pc, prefixes) ==
  LET hits == {i \in DOMAIN prefixes : IsPrefix(prefixes[i], pc.path)}
      prefix == prefixes[CHOOSE i \in hits : \A j \in hits : i <= j]
  IN  IF hits = {} THEN pc ELSE SetRequestPath(pc, SubSeq(pc.path, Len(prefix) + 1, Len(pc.path)))

addPrefix(pc, template) ==
  LET prefix == renderRequestTemplate(pc, template)
  IN  SetRequestPath(pc, IF pc.path = <<"/">> THEN Rooted(prefix) ELSE Rooted(prefix) \o pc.path)

-----------------------------------------------------------------------------
(* Headers and queries. add and set map fields to templates; a map is walked  *)
(* in any order, so that the operators have a set of results.                 *)

Edit(pc, step) ==
  CASE step.op = "add"    -> AddField(pc, step.field, renderRequestTemplate(pc, step.value))
    [] step.op = "set"    -> SetField(pc, step.field, renderRequestTemplate(pc, step.value))
    [] step.op = "remove" -> DelField(pc, step.field)

Walks(op, map, kind) ==
  SetToSeqs({[op |-> op, field |-> f, value |-> map[f]] : f \in {g \in DOMAIN map : g[1] = kind}})
Removals(fields) == [i \in DOMAIN fields |-> [op |-> "remove", field |-> fields[i], value |-> <<>>]]

requestTransformer(pc, cfg) ==
  LET first == IF cfg.method = <<>> THEN pc ELSE [pc EXCEPT !.method = renderRequestTemplate(pc, cfg.method)]
      second == IF cfg.host = <<>> THEN first ELSE [first EXCEPT !.host = renderRequestTemplate(first, cfg.host)]
  IN  {FoldLeft(Edit, second, ah \o aq \o Removals(cfg.remove) \o sh \o sq) :
         ah \in Walks("add", cfg.add, "header"), aq \in Walks("add", cfg.add, "query"),
         sh \in Walks("set", cfg.set, "header"), sq \in Walks("set", cfg.set, "query")}

responseTransformer(pc, cfg) ==
  {[FoldLeft(Edit, pc, Removals(cfg.remove) \o add \o set) EXCEPT
      !.status = IF cfg.status > 0 THEN cfg.status ELSE @] :
     add \in Walks("add", cfg.add, "response"), set \in Walks("set", cfg.set, "response")}

-----------------------------------------------------------------------------
(* The handlers, before and after they call Next. *)

\* The ID a request_id handler works with: the one of the client, or a new one.
requestID(pc, cfg, fresh) ==
  LET sent == Get(pc, <<"header", cfg.header>>) IN IF sent = <<>> THEN fresh ELSE sent

setRequestID(pc, cfg, id) ==
  [(IF Get(pc, <<"header", cfg.header>>) = <<>> THEN SetField(pc, <<"header", cfg.header>>, id) ELSE pc)
     EXCEPT !.requestID = id]

BeforeNext(name, params, pc, id) ==
  CASE name = "request_id"          -> {setRequestID(pc, params, id)}
    [] name = "request_transformer" -> requestTransformer(pc, params)
    [] name = "rewrite_path_regex"  -> {rewritePathRegex(pc, params.rules)}
    [] name = "replace_path"        -> {replacePath(pc, params.path)}
    [] name = "strip_prefix"        -> {stripPrefix(pc, params.prefixes)}
    [] name = "add_prefix"          -> {addPrefix(pc, params.prefix)}
    [] OTHER                        -> {pc}

\* id is the local variable of the handler, not the one of the context.
AfterNextOfContext(name, params, pc, id) ==
  CASE name = "request_id" /\ params.include -> {SetField(pc, <<"response", params.header>>, pc.requestID)}
    [] name = "response_transformer"         -> responseTransformer(pc, params)
    [] OTHER                                 -> {pc}
AfterNext(name, params, pc, id) ==
  CASE name = "request_id" /\ params.include -> {SetField(pc, <<"response", params.header>>, id)}
    [] name = "response_transformer"         -> responseTransformer(pc, params)
    [] OTHER                                 -> {pc}
=============================================================================
