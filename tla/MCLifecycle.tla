---------------------------- MODULE MCLifecycle ----------------------------
(* A proxy engine with a Hugging Face source, and the Ollama daemon with a  *)
(* GGUF it fetches from a URL and registers itself.                         *)
EXTENDS Lifecycle

MCDeployments == {<<FALSE, "hf", 2>>, <<TRUE, "ollama-url", 1>>}
DaemonOnly == {<<TRUE, "ollama-url", 1>>}
ProxyWithURL == {<<FALSE, "url", 0>>}
DaemonWithHF == {<<TRUE, "hf", 0>>}
=============================================================================
