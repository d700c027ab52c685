-------------------------- MODULE AnthropicProvider --------------------------
(* src/graph/providers/anthropic_provider.py: how the answer of the model    *)
(* becomes a proposal.  An answer is its content: None, a sequence of blocks,*)
(* or something that cannot be iterated over.  A block keeps its type and,   *)
(* for tool_use, a name and an input: None stands for a name that is no      *)
(* string and an input that is no dict.  raw_response is a text.             *)
EXTENDS TicketTools

CONSTANTS
    Blank,          \* the arguments of a proposal that has none: {}
    NotIterable     \* a truthy content that is no sequence of blocks

Blocks(content) == IF content = None THEN <<>> ELSE content

ToolUse(block) == block.type = "tool_use" /\ block.name # None /\ block.input # None

(* Mutant: the last tool use counts.                                         *)
ParseLast(content) ==
    LET blocks == Blocks(content)
        uses == {i \in DOMAIN blocks : ToolUse(blocks[i])}
        last == CHOOSE i \in uses : \A j \in uses : j <= i
    IN  IF uses = {} THEN [tool_name |-> "", arguments |-> Blank]
        ELSE [tool_name |-> blocks[last].name, arguments |-> blocks[last].input]

(* The first well-formed tool use is the proposal; without one the proposal  *)
(* names no tool and is left for the policy to deny.                         *)
_parse_tool_use_response(content) ==
    LET blocks == Blocks(content)
        uses == {i \in DOMAIN blocks : ToolUse(blocks[i])}
        first == CHOOSE i \in uses : \A j \in uses : i <= j
    IN  IF uses = {} THEN [tool_name |-> "", arguments |-> Blank]
        ELSE [tool_name |-> blocks[first].name, arguments |-> blocks[first].input]

(* The loop over the blocks raises TypeError.                                *)
ParsingRaises(content) == content = NotIterable
=============================================================================
