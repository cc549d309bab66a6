----------------------------- MODULE AgentTools -----------------------------
(***************************************************************************)
(* src/src/pkg/tools: what the agent's eleven tools answer.  A call whose  *)
(* arguments are not JSON of the right form is an error, and ends the      *)
(* conversation (ExecFails of Agent); a name the database does not have is *)
(* an answer like any other.                                               *)
(***************************************************************************)
EXTENDS Database

CONSTANTS
    Garbled,    \* arguments that json.Unmarshal refuses
    ToolError   \* the error of an Exec function

Code(row) == IF row = NotFound THEN NotFound ELSE row.rest.text

TypedefType(row) == IF row = NotFound THEN NotFound ELSE row.key.type

\* string(rune(line)): the line number is not formatted, it becomes the character with that
\* code point, and what is no code point becomes U+FFFD.
Rune(n) == IF n > 1114111 \/ n \in 55296..57343 THEN 65533 ELSE n

MacroLoc(row) == IF row = NotFound THEN NotFound ELSE <<row.key.file, Rune(row.key.line)>>

ByName ==
    {"get_func_code_by_name", "get_struct_code_by_name", "get_union_code_by_name",
     "get_enum_code_by_enumerator", "get_enum_code_by_specifier", "get_global_var_code_by_name",
     "get_typedef_code_by_define", "get_typedef_type_by_define", "get_macro_def_code_by_name",
     "get_macro_def_loc_by_name"}

ByPattern == "get_macro_def_codes_by_pattern"

\* The answer of a tool.  That for a pattern is a list of codes, in no promised order.
Answer(db, tool, arg) ==
    CASE tool = "get_func_code_by_name"       -> Code(GetFunction(db, arg))
      [] tool = "get_struct_code_by_name"     -> Code(GetStruct(db, arg))
      [] tool = "get_union_code_by_name"      -> Code(GetUnion(db, arg))
      [] tool = "get_enum_code_by_enumerator" -> Code(GetEnumByEnumerator(db, arg))
      [] tool = "get_enum_code_by_specifier"  -> Code(GetEnumBySpecifier(db, arg))
      [] tool = "get_global_var_code_by_name" -> Code(GetGlobalVar(db, arg))
      [] tool = "get_typedef_code_by_define"  -> Code(GetTypedef(db, arg))
      [] tool = "get_typedef_type_by_define"  -> TypedefType(GetTypedef(db, arg))
      [] tool = "get_macro_def_code_by_name"  -> Code(GetMacroDefByName(db, arg))
      [] tool = "get_macro_def_loc_by_name"   -> MacroLoc(GetMacroDefByName(db, arg))
      [] tool = ByPattern -> {Code(r) : r \in GetMacroDefByPattern(db, arg)}

Exec(db, tool, arg) == IF arg = Garbled THEN ToolError ELSE Answer(db, tool, arg)
=============================================================================
